---- MODULE Spec2Model ----
(***************************************************************************)
(* Department inventory tracker (peetee09/Mlabs_bootcamp).                 *)
(*                                                                         *)
(* The browser dashboard (src/js/app.js) keeps the inventory, usage and    *)
(* supplier collections in module-level arrays and derives from them the   *)
(* item status, the days until stockout, the forecast table and the        *)
(* recommendation cards.  The REST server (src/server) keeps the same      *)
(* collections in a document store.                                        *)
(*                                                                         *)
(* Specifications:                                                         *)
(*   SpecEngine     the views derived from a snapshot of the inventory     *)
(*   SpecUsage      the views derived from a snapshot of the usage records *)
(*   Spec           the client and the server, one action per operation    *)
(*   SpecAudit      the same operations, begun with a full audit log       *)
(*   SpecSuppliers  the supplier collection and the items that refer to it *)
(*   SpecPage       the inventory tab's memo and the notification list     *)
(*   SpecRequests   the server's stock requests, interleaved at each await *)
(*   SpecPush       the push subscription routes                           *)
(*                                                                         *)
(* Numbers.  currentStock, reorderLevel and quantities are integers.       *)
(* dailyUsage is a real in the program; here it is held as an integer      *)
(* count of 1/UsageDen units, so that dailyUsage = 3 with UsageDen = 2 is  *)
(* 1.5 units a day.  Infinity is the tagged value Inf.  Instants (a usage  *)
(* record's date, the dashboard's new Date()) are integers, DayTicks to a  *)
(* day; an audit entry's timestamp is the instant at which it was made.    *)
(***************************************************************************)
EXTENDS Integers, Sequences, FiniteSets, TLC

VARIABLES
    inventoryData,    \* app.js:15   the client's inventory array
    usageData,        \* app.js:16   the client's usage array
    suppliersData,    \* app.js:17   the client's supplier array (ids only)
    auditLog,         \* app.js:18   the client's audit log
    storedInventory,  \* localStorage['inventoryData'], what saveAllData wrote last
    storedUsage,      \* localStorage['usageData']
    storedAudit,      \* localStorage['auditLog']
    serverInventory,  \* the Inventory collection of the document store
    serverUsage,      \* the Usage collection
    serverAudit,      \* the AuditLog collection
    nextOid,          \* the next ObjectId the document store hands out
    clock,            \* the instant of the newest audit entry (0: none yet)
    apiUp,            \* whether fetch() reaches the server
    now,              \* the instant the dashboard reads with new Date()
    pc,               \* which derived view was computed last
    again,            \* that view was computed a second time
    statuses,         \* per item, the client's and the server's status
    forecast,         \* the rows renderForecast built
    recommendations,  \* the cards generateRecommendations returned
    topUsed,          \* the entries renderTopUsedItems built
    trend,            \* the 7 values updateCharts gave the trend chart
    serverSuppliers,  \* the Supplier collection
    inventoryTable,   \* the supplier cell of each row renderInventoryTable wrote
    filters,          \* the inventory tab's status filter and sort key
    filterCache,      \* app.js:152  the memo of getFilteredInventory
    notifications,    \* app.js:19   the client's notification list
    handlers,         \* the requests the server is serving, each at an await
    subscriptions,    \* the Subscription collection
    report            \* the answer of the last POST /api/notifications/send

vars == <<inventoryData, usageData, suppliersData, auditLog, storedInventory,
          storedUsage, storedAudit, serverInventory, serverUsage, serverAudit,
          nextOid, clock, apiUp, now, pc, again, statuses, forecast,
          recommendations, topUsed, trend, serverSuppliers, inventoryTable,
          filters, filterCache, notifications, handlers, subscriptions, report>>

supplierVars == <<serverSuppliers, inventoryTable>>
pageVars == <<filters, filterCache, notifications>>
pushVars == <<subscriptions, report>>
\* What is not part of the state of SpecEngine, SpecUsage, Spec and SpecAudit.
elsewhereVars == <<supplierVars, pageVars, handlers, pushVars>>

\* What the operations of the client and the server leave alone.
engineVars == <<suppliersData, now, pc, again, statuses, forecast,
                recommendations, topUsed, trend, elsewhereVars>>
\* What computing a derived view leaves alone.
storedVars == <<storedInventory, storedUsage, storedAudit>>
serverVars == <<serverInventory, serverUsage, serverAudit, nextOid>>

----------------------------------------------------------------------------
(* Bounds of the model *)

\* Most items in a snapshot of ForecastItems.
MaxItems == 3
\* Most suppliers in the supplier collection.
MaxSuppliers == 1
\* dailyUsage is counted in units of 1/UsageDen.
UsageDen == 2

Min(a, b) == IF a <= b THEN a ELSE b
Max(a, b) == IF a >= b THEN a ELSE b

----------------------------------------------------------------------------
(* Values *)

Healthy    == "Healthy"
Low        == "Low"
OutOfStock == "Out of Stock"
Statuses   == {Healthy, Low, OutOfStock}
\* An item without a stored status field (item.status is undefined).
NoStatus   == ""

\* Math.floor's and the subtraction's results: a finite integer or Infinity.
Fin(n) == [inf |-> FALSE, n |-> n]
Inf    == [inf |-> TRUE, n |-> 0]

\* An inventory item.  _id is the server's ObjectId (0: the item has none),
\* id the number generateId gave a locally created item (0: none).
Item(oid, lid, stock, reorder, usage, st) ==
    [_id |-> oid, id |-> lid, currentStock |-> stock, reorderLevel |-> reorder,
     dailyUsage |-> usage, status |-> st]

----------------------------------------------------------------------------
(* Status classifier *)

\* A plausible slip: the boundary currentStock = reorderLevel taken as Healthy.
getItemStatusStrict(item) ==
    IF item.status # NoStatus THEN item.status
    ELSE IF item.currentStock = 0 THEN OutOfStock
    ELSE IF item.currentStock < item.reorderLevel THEN Low
    ELSE Healthy

\* app.js getItemStatus: a stored status field wins over the computation.
getItemStatus(item) ==
    IF item.status # NoStatus THEN item.status
    ELSE IF item.currentStock = 0 THEN OutOfStock
    ELSE IF item.currentStock <= item.reorderLevel THEN Low
    ELSE Healthy

\* The server's virtual 'status' of an Inventory document.
statusVirtual(doc) ==
    IF doc.currentStock = 0 THEN OutOfStock
    ELSE IF doc.currentStock <= doc.reorderLevel THEN Low
    ELSE Healthy

----------------------------------------------------------------------------
(* Stockout estimator *)

\* A plausible slip: the product currentStock * dailyUsage for the quotient.
getDaysUntilStockoutProduct(item) ==
    IF item.dailyUsage <= 0 THEN Inf
    ELSE Fin((item.currentStock * item.dailyUsage) \div UsageDen)

\* A plausible slip: Math.round instead of Math.floor.
getDaysUntilStockoutRound(item) ==
    IF item.dailyUsage <= 0 THEN Inf
    ELSE Fin((2 * item.currentStock * UsageDen + item.dailyUsage)
                 \div (2 * item.dailyUsage))

\* app.js getDaysUntilStockout: currentStock / dailyUsage, floored.
getDaysUntilStockout(item) ==
    IF item.dailyUsage <= 0 THEN Inf
    ELSE Fin((item.currentStock * UsageDen) \div item.dailyUsage)

----------------------------------------------------------------------------
(* Forecast table *)

\* days <= k in JavaScript: false for Infinity.
LeqNum(d, k) == ~d.inf /\ d.n <= k

\* A plausible slip: the thresholds taken as strict (days < 7, days < 14).
forecastPriorityStrict(days) ==
    IF LeqNum(days, 6) THEN "high"
    ELSE IF LeqNum(days, 13) THEN "medium"
    ELSE "low"

\* renderForecast: let priority = 'low'; if (days <= 7) ... else if (days <= 14) ...
forecastPriority(days) ==
    IF LeqNum(days, 7) THEN "high"
    ELSE IF LeqNum(days, 14) THEN "medium"
    ELSE "low"

\* A plausible slip: days - 7 without Math.max(0, ...).
orderOffsetUnclamped(days) ==
    IF days.inf THEN Inf ELSE Fin(days.n - 7)

\* renderForecast: Math.max(0, days - 7), the offset of orderDate from today
\* (in days; Infinity makes the Date invalid).
orderOffset(days) ==
    IF days.inf THEN Inf ELSE Fin(Max(0, days.n - 7))

\* What a cell shows for Infinity days.
NA == "N/A"

\* renderForecast: the days cell and the order date cell of a row, 'N/A' for
\* item.days === Infinity, else the days and formatDate(item.orderDate), the
\* date written as its offset from today.
forecastCells(row) ==
    [days      |-> IF row.days.inf THEN NA ELSE ToString(row.days.n),
     orderDate |-> IF row.days.inf THEN NA ELSE ToString(row.orderDate.n)]

\* renderForecast: the row built for one item, { ...item, days, priority, orderDate }.
forecastRow(item) ==
    [item      |-> item,
     days      |-> getDaysUntilStockout(item),
     priority  |-> forecastPriority(getDaysUntilStockout(item)),
     orderDate |-> orderOffset(getDaysUntilStockout(item))]

\* A plausible slip: an Infinity row compared as if its days were 0.
compareDaysInfAsZero(a, b) ==
    LET x == IF a.days.inf THEN 0 ELSE a.days.n
        y == IF b.days.inf THEN 0 ELSE b.days.n
    IN  IF x < y THEN -1 ELSE IF x > y THEN 1 ELSE 0

\* The comparator (a, b) => a.days - b.days, by the sign sort() reads from it:
\* Infinity - Infinity is NaN, which sort() takes as 0.
compareDays(a, b) ==
    IF a.days.inf /\ b.days.inf THEN 0
    ELSE IF a.days.inf THEN 1
    ELSE IF b.days.inf THEN -1
    ELSE IF a.days.n < b.days.n THEN -1
    ELSE IF a.days.n > b.days.n THEN 1
    ELSE 0

\* Array.prototype.sort with compareDays: stable, so a row goes after every
\* row that does not compare greater than it.
RECURSIVE insertByDays(_, _)
insertByDays(sorted, row) ==
    IF sorted = <<>> THEN <<row>>
    ELSE IF compareDays(Head(sorted), row) <= 0
         THEN <<Head(sorted)>> \o insertByDays(Tail(sorted), row)
         ELSE <<row>> \o sorted

RECURSIVE sortByDays(_)
sortByDays(rows) ==
    IF rows = <<>> THEN <<>>
    ELSE insertByDays(sortByDays(SubSeq(rows, 1, Len(rows) - 1)), rows[Len(rows)])

\* renderForecast: inventoryData.map(...).sort(...), the rows of the table.
forecastRows(inventory) ==
    sortByDays([i \in 1..Len(inventory) |-> forecastRow(inventory[i])])

\* A plausible slip: sort() called on inventoryData itself, which it reorders
\* in place.
inventoryAfterForecastSorted(inventory) ==
    [i \in 1..Len(inventory) |-> forecastRows(inventory)[i].item]

\* renderForecast: inventoryData once the table is built.  sort() reorders
\* its receiver in place; the receiver is the array map() returned, so
\* inventoryData keeps its items and their order.
inventoryAfterForecast(inventory) == inventory

----------------------------------------------------------------------------
(* Recommendations *)

\* Array.prototype.filter.
RECURSIVE filterSeq(_, _)
filterSeq(s, keep) ==
    IF s = <<>> THEN <<>>
    ELSE IF Head(s) \in keep THEN <<Head(s)>> \o filterSeq(Tail(s), keep)
    ELSE filterSeq(Tail(s), keep)

Range(s) == {s[i] : i \in 1..Len(s)}

\* A plausible slip: every item that is not Healthy taken as out of stock.
outOfStockItemsNotHealthy(inventory) ==
    filterSeq(inventory, {i \in Range(inventory) : getItemStatus(i) # Healthy})

\* generateRecommendations: the items of the out-of-stock alert.
outOfStockItems(inventory) ==
    filterSeq(inventory, {i \in Range(inventory) : getItemStatus(i) = OutOfStock})

\* A plausible slip: the test 'is not already Out of Stock' left out.
criticalItemsNoStatusTest(inventory) ==
    filterSeq(inventory, {i \in Range(inventory) :
        LeqNum(getDaysUntilStockout(i), 7)})

\* generateRecommendations: the items that run out within a week.
criticalItems(inventory) ==
    filterSeq(inventory, {i \in Range(inventory) :
        /\ ~getDaysUntilStockout(i).inf
        /\ LeqNum(getDaysUntilStockout(i), 7)
        /\ getItemStatus(i) # OutOfStock})

\* A plausible slip: the test days !== Infinity left out (Infinity > 90).
underutilizedItemsInfToo(inventory) ==
    filterSeq(inventory, {i \in Range(inventory) :
        /\ getDaysUntilStockout(i).inf \/ getDaysUntilStockout(i).n > 90
        /\ i.currentStock > i.reorderLevel * 3})

\* generateRecommendations: the items with excess stock.
underutilizedItems(inventory) ==
    filterSeq(inventory, {i \in Range(inventory) :
        /\ ~getDaysUntilStockout(i).inf
        /\ getDaysUntilStockout(i).n > 90
        /\ i.currentStock > i.reorderLevel * 3})

\* generateRecommendations: the items with dailyUsage > 5.
highUsageItems(inventory) ==
    filterSeq(inventory, {i \in Range(inventory) : i.dailyUsage > 5 * UsageDen})

\* A recommendation card: type, title, the action's handler ("null": no
\* action), priority, and the number of items its text counts.
Card(type, title, handler, priority, count) ==
    [type |-> type, title |-> title, action |-> handler,
     priority |-> priority, count |-> count]

\* One card, or none, by the rule's condition.
cardIf(cond, card) == IF cond THEN <<card>> ELSE <<>>

\* The cards pushed before the all-healthy test, in the order of the pushes:
\* out of stock (1), running low (2), excess stock (4), high consumption (3).
warningCards(inventory) ==
    cardIf(Len(outOfStockItems(inventory)) > 0,
           Card("warning", "Urgent: Items Out of Stock", "generateOrderRequest",
                1, Len(outOfStockItems(inventory))))
    \o cardIf(Len(criticalItems(inventory)) > 0,
           Card("warning", "Stock Running Low", "viewInventory",
                2, Len(criticalItems(inventory))))
    \o cardIf(Len(underutilizedItems(inventory)) > 0,
           Card("info", "Optimize Stock Levels", "null",
                4, Len(underutilizedItems(inventory))))
    \o cardIf(Len(highUsageItems(inventory)) > 0,
           Card("info", "High Consumption Items", "viewUsage",
                3, Len(highUsageItems(inventory))))

\* A plausible slip: the all-healthy card pushed whenever the inventory is not empty.
healthyCardAlways(inventory) ==
    cardIf(Len(inventory) > 0,
           Card("success", "Inventory Health: Excellent", "null", 5, 0))

\* if (recommendations.length === 0 && inventoryData.length > 0): all healthy.
healthyCard(inventory) ==
    cardIf(Len(warningCards(inventory)) = 0 /\ Len(inventory) > 0,
           Card("success", "Inventory Health: Excellent", "null", 5, 0))

\* A plausible slip: the add-suppliers card pushed only when nothing else was.
supplierCardIfAlone(inventory, suppliers) ==
    cardIf(Len(inventory) > 0 /\ Len(suppliers) = 0
             /\ Len(warningCards(inventory) \o healthyCard(inventory)) = 0,
           Card("info", "Add Suppliers", "showAddSupplierModal", 6, 0))

\* if (inventoryData.length > 0 && suppliersData.length === 0): add suppliers.
supplierCard(inventory, suppliers) ==
    cardIf(Len(inventory) > 0 /\ Len(suppliers) = 0,
           Card("info", "Add Suppliers", "showAddSupplierModal", 6, 0))

\* Every card pushed, in the order of the pushes.
matchedCards(inventory, suppliers) ==
    warningCards(inventory) \o healthyCard(inventory)
        \o supplierCard(inventory, suppliers)

\* Array.prototype.sort with (a, b) => a.priority - b.priority (stable).
RECURSIVE insertByPriority(_, _)
insertByPriority(sorted, card) ==
    IF sorted = <<>> THEN <<card>>
    ELSE IF Head(sorted).priority - card.priority <= 0
         THEN <<Head(sorted)>> \o insertByPriority(Tail(sorted), card)
         ELSE <<card>> \o sorted

\* A plausible slip: the cards left in the order of the pushes.
sortByPriorityNone(cards) == cards

RECURSIVE sortByPriority(_)
sortByPriority(cards) ==
    IF cards = <<>> THEN <<>>
    ELSE insertByPriority(sortByPriority(SubSeq(cards, 1, Len(cards) - 1)),
                          cards[Len(cards)])

\* Array.prototype.slice(0, n).
slice0(s, n) == SubSeq(s, 1, Min(n, Len(s)))

\* The most cards generateRecommendations returns: .slice(0, 3).
MaxCards == 3

\* generateRecommendations: sort the pushed cards by priority, keep three.
generateRecommendations(inventory, suppliers) ==
    slice0(sortByPriority(matchedCards(inventory, suppliers)), MaxCards)

----------------------------------------------------------------------------
(* Lookup by id *)

\* getItemId: item._id || item.id, an ObjectId string or a number.
getItemId(item) ==
    IF item._id # 0 THEN [kind |-> "oid", v |-> item._id]
    ELSE [kind |-> "num", v |-> item.id]

\* The id as the page holds it, '${getItemId(item)}': always a string.
domId(item) ==
    IF item._id # 0 THEN [kind |-> "oid", v |-> item._id]
    ELSE [kind |-> "numstr", v |-> item.id]

\* inventoryData.findIndex(i => getItemId(i) === id || getItemId(i) ===
\* String(id)) for an id of the page: strict equality, so a number never
\* equals the string.  0 stands for -1 (not found).
findIndex(inventory, id) ==
    IF \E i \in 1..Len(inventory) : getItemId(inventory[i]) = id
    THEN CHOOSE i \in 1..Len(inventory) :
            /\ getItemId(inventory[i]) = id
            /\ \A j \in 1..(i - 1) : getItemId(inventory[j]) # id
    ELSE 0

----------------------------------------------------------------------------
(* Aggregates of the usage records *)

\* A usage record.  _id is the server's ObjectId (0: none), id the number
\* generateId gave a record made locally (0: none), itemId the id of the item
\* it refers to as getItemId gives it, date an instant.
Usage(oid, lid, itemId, quantity, date) ==
    [_id |-> oid, id |-> lid, itemId |-> itemId, quantity |-> quantity,
     date |-> date]

\* An ObjectId as JSON carries it.
Oid(n) == [kind |-> "oid", v |-> n]

\* renderTopUsedItems, Object.keys(usageByItem): the itemIds of the records
\* in the order of their first occurrence (ObjectId strings are not integer
\* keys, so the keys keep the order of insertion).
RECURSIVE usageKeys(_)
usageKeys(usage) ==
    IF usage = <<>> THEN <<>>
    ELSE LET rest == usageKeys(SubSeq(usage, 1, Len(usage) - 1))
             id   == usage[Len(usage)].itemId
         IN  IF id \in Range(rest) THEN rest ELSE Append(rest, id)

\* renderTopUsedItems, usageByItem[itemId]: the sum of quantity over the
\* records of the item.
RECURSIVE usageByItem(_, _)
usageByItem(usage, itemId) ==
    IF usage = <<>> THEN 0
    ELSE (IF Head(usage).itemId = itemId THEN Head(usage).quantity ELSE 0)
            + usageByItem(Tail(usage), itemId)

\* The name shown for an itemId no item of the inventory has.
Unknown == [unknown |-> TRUE, item |-> 0]

\* renderTopUsedItems: item ? item.name : 'Unknown', the name standing for
\* the item's place in the inventory.
topUsedName(inventory, itemId) ==
    IF findIndex(inventory, itemId) # 0
    THEN [unknown |-> FALSE, item |-> findIndex(inventory, itemId)]
    ELSE Unknown

\* renderTopUsedItems: { id, name, usage } of one key.
topUsedEntry(inventory, usage, itemId) ==
    [id |-> itemId, name |-> topUsedName(inventory, itemId),
     usage |-> usageByItem(usage, itemId)]

\* A plausible slip: the comparator written a.usage - b.usage (ascending).
compareUsageAscending(a, b) == a.usage - b.usage

\* The comparator (a, b) => b.usage - a.usage.
compareUsage(a, b) == b.usage - a.usage

\* Array.prototype.sort with compareUsage (stable).
RECURSIVE insertByUsage(_, _)
insertByUsage(sorted, entry) ==
    IF sorted = <<>> THEN <<entry>>
    ELSE IF compareUsage(Head(sorted), entry) <= 0
         THEN <<Head(sorted)>> \o insertByUsage(Tail(sorted), entry)
         ELSE <<entry>> \o sorted

RECURSIVE sortByUsage(_)
sortByUsage(entries) ==
    IF entries = <<>> THEN <<>>
    ELSE insertByUsage(sortByUsage(SubSeq(entries, 1, Len(entries) - 1)),
                       entries[Len(entries)])

\* The most entries renderTopUsedItems shows: .slice(0, 5).
MaxTop == 5

\* renderTopUsedItems: sortedItems.
topUsedItems(inventory, usage) ==
    slice0(sortByUsage([k \in 1..Len(usageKeys(usage)) |->
                          topUsedEntry(inventory, usage, usageKeys(usage)[k])]),
           MaxTop)

\* Instants to a day.
DayTicks == 2
\* The days of the usage trend: for (let i = 6; i >= 0; i--).
TrendDays == 7

\* toISOString().split('T')[0]: the day an instant falls on.
dayKey(t) == t \div DayTicks

\* A plausible slip: the loop run from 7 down to 1, a window ending yesterday.
last7DaysToYesterday(t) ==
    [k \in 1..TrendDays |-> dayKey(t - (TrendDays + 1 - k) * DayTicks)]

\* updateCharts, last7Days: the day keys of now - 6 days, ..., now.
last7Days(t) ==
    [k \in 1..TrendDays |-> dayKey(t - (TrendDays - k) * DayTicks)]

\* updateCharts, usageByDay[key] after the forEach: the quantities of the
\* records whose day key is key (a key outside the window has no bucket
\* and takes no record).
RECURSIVE usageByDay(_, _)
usageByDay(usage, key) ==
    IF usage = <<>> THEN 0
    ELSE (IF dayKey(Head(usage).date) = key THEN Head(usage).quantity ELSE 0)
            + usageByDay(Tail(usage), key)

\* updateCharts: usageValues, the data of the trend chart.
usageValues(usage, t) ==
    [k \in 1..TrendDays |-> usageByDay(usage, last7Days(t)[k])]

----------------------------------------------------------------------------
(* SpecEngine: the derived views of a snapshot *)

\* Snapshots that vary stock and usage across the forecast's thresholds:
\* with UsageDen = 2 the usages are -1, 0, 0.5, 1 and 6 a day, so that the
\* days are 7, 8, 14, 15 (the priority boundaries), 2 from 15 / 6 = 2.5 (floor
\* against round) and Infinity; and 91 days' stock with a reorder level on
\* either side of stock / 3.
ForecastStocks == {7, 8, 15}
ForecastUsages == {-UsageDen, 0, 1, UsageDen, 6 * UsageDen}
ExcessReorders == {8, 40}
ForecastItems(k) ==
    {Item(k, 0, s, 8, u, NoStatus) : s \in ForecastStocks, u \in ForecastUsages}
    \cup {Item(k, 0, 91, r, UsageDen, NoStatus) : r \in ExcessReorders}

\* Snapshots that vary what the recommendation rules read: stock 0, a week's
\* stock and 91 days' stock, usage 0, 1 and 6 a day, and a status field as the
\* server serialised it earlier (it may no longer match the stock, see
\* RecordUsageLocal).
RecStocks == {0, 7, 91}
RecUsages == {0, UsageDen, 6 * UsageDen}
RecStatuses == {NoStatus} \cup Statuses
RecItems(k) ==
    {Item(k, 0, s, 8, u, st) :
        s \in RecStocks, u \in RecUsages, st \in RecStatuses}

\* Most items in a snapshot of RecItems.
MaxRecItems == 2

\* Snapshots that vary what the top-used list reads: up to MaxUsageRecs
\* records, the k-th of item 1 or of item k, over an inventory that holds the
\* items 1 and 2 only, so that the records make up to MaxUsageRecs distinct
\* itemIds, some with the same total, most without an item.
MaxUsageRecs == 7
TopQuantities == {1, 2}
TopInventory == <<Item(1, 0, 8, 8, 0, NoStatus), Item(2, 0, 8, 8, 0, NoStatus)>>
TopRecords(k) ==
    {Usage(k, 0, Oid(i), q, 0) : i \in {1, k}, q \in TopQuantities}

\* Snapshots that vary what the usage trend reads: up to MaxTrendRecs records
\* dated 7 days before today (outside the window), on the first day of the
\* window, yesterday's last instant, today, and tomorrow (outside), read at
\* the first or a later instant of today (day 0).
MaxTrendRecs == 3
TrendDates ==
    {-TrendDays * DayTicks, -(TrendDays - 1) * DayTicks, -1, 0, DayTicks - 1,
     DayTicks}
TrendNows == {0, DayTicks - 1}
TrendRecords(k) ==
    {Usage(k, 0, Oid(1), q, d) : q \in TopQuantities, d \in TrendDates}

\* The collections and lists that are no part of a specification's state,
\* as they are before anything was added to them.
InitElsewhere ==
    /\ serverSuppliers = <<>>
    /\ inventoryTable = <<>>
    /\ filters = [status |-> "", sortBy |-> "name"]
    /\ filterCache = [key |-> <<>>, result |-> <<>>]
    /\ notifications = <<>>
    /\ handlers = <<>>
    /\ subscriptions = <<>>
    /\ report = [successful |-> 0, failed |-> 0, total |-> 0, sent |-> {}]

\* What a snapshot leaves empty: the log, the store, the server, the views.
InitViews ==
    /\ InitElsewhere
    /\ auditLog = <<>>
    /\ storedInventory = <<>>
    /\ storedUsage = <<>>
    /\ storedAudit = <<>>
    /\ serverInventory = <<>>
    /\ serverUsage = <<>>
    /\ serverAudit = <<>>
    /\ nextOid = 1
    /\ clock = 0
    /\ apiUp = TRUE
    /\ pc = "snapshot"
    /\ again = FALSE
    /\ statuses = <<>>
    /\ forecast = <<>>
    /\ recommendations = <<>>
    /\ topUsed = <<>>
    /\ trend = <<>>

\* A snapshot of items: n items of one of the two families, the k-th with
\* _id k, and no usage records.
InitEngine ==
    /\ \/ /\ \E n \in 0..MaxItems : \E f \in [1..n -> ForecastItems(0)] :
                inventoryData = [k \in 1..n |-> [f[k] EXCEPT !._id = k]]
          /\ suppliersData = <<>>
       \/ /\ \E n \in 1..MaxRecItems : \E f \in [1..n -> RecItems(0)] :
                inventoryData = [k \in 1..n |-> [f[k] EXCEPT !._id = k]]
          /\ suppliersData \in {[i \in 1..n |-> i] : n \in 0..MaxSuppliers}
    /\ usageData = <<>>
    /\ now = 0
    /\ InitViews

\* A snapshot of usage records: n records of one of the two families, the
\* k-th with _id k (and, in TopRecords, with itemId k where it is not 1), over
\* TopInventory.
InitUsage ==
    /\ inventoryData = TopInventory
    /\ suppliersData = <<>>
    /\ \/ /\ \E n \in 0..MaxUsageRecs : \E f \in [1..n -> TopRecords(0)] :
                usageData = [k \in 1..n |->
                    [f[k] EXCEPT !._id = k,
                                 !.itemId = IF @ = Oid(0) THEN Oid(k) ELSE @]]
          /\ now = 0
       \/ /\ \E n \in 1..MaxTrendRecs : \E f \in [1..n -> TrendRecords(0)] :
                usageData = [k \in 1..n |-> [f[k] EXCEPT !._id = k]]
          /\ now \in TrendNows
    /\ InitViews

\* A view is computed on a fresh snapshot, or a second time right after it
\* was computed.
MayCompute(view) == ~again /\ pc \in {"snapshot", view}

\* What no derived view reads or writes.
Untouched ==
    UNCHANGED <<auditLog, storedVars, serverVars, clock, apiUp, now,
                elsewhereVars>>

\* updateDashboard: the status of every item (the low-stock and out-of-stock
\* counts and tables read it; the server's virtual is computed beside it for
\* the same stock and reorder level), the top-used list and the
\* recommendation cards.
UpdateDashboard ==
    /\ MayCompute("dashboard")
    /\ statuses' = [i \in 1..Len(inventoryData) |->
                       [client |-> getItemStatus(inventoryData[i]),
                        server |-> statusVirtual(inventoryData[i])]]
    /\ topUsed' = topUsedItems(inventoryData, usageData)
    /\ recommendations' = generateRecommendations(inventoryData, suppliersData)
    /\ pc' = "dashboard"
    /\ again' = (pc = "dashboard")
    /\ Untouched
    /\ UNCHANGED <<inventoryData, usageData, suppliersData, forecast, trend>>

\* showTab('forecast'): renderForecast builds the rows of the forecast table.
RenderForecast ==
    /\ MayCompute("forecast")
    /\ forecast' = forecastRows(inventoryData)
    /\ inventoryData' = inventoryAfterForecast(inventoryData)
    /\ pc' = "forecast"
    /\ again' = (pc = "forecast")
    /\ Untouched
    /\ UNCHANGED <<usageData, suppliersData, statuses, recommendations, topUsed,
                   trend>>

\* initializeCharts, refreshDashboard: updateCharts sets the data of the usage
\* trend chart.
UpdateCharts ==
    /\ MayCompute("trend")
    /\ trend' = usageValues(usageData, now)
    /\ pc' = "trend"
    /\ again' = (pc = "trend")
    /\ Untouched
    /\ UNCHANGED <<inventoryData, usageData, suppliersData, statuses, forecast,
                   recommendations, topUsed>>

NextEngine == UpdateDashboard \/ RenderForecast

SpecEngine == InitEngine /\ [][NextEngine]_vars

NextUsage == UpdateDashboard \/ UpdateCharts

SpecUsage == InitUsage /\ [][NextUsage]_vars

----------------------------------------------------------------------------
(* Spec: the client and the server                                         *)
(*                                                                         *)
(* One action per client operation and outcome: the request reached the    *)
(* server and was answered ok (...Api), or fetch threw or the answer was   *)
(* not ok, and the catch block changed the client's copy (...Local).  The  *)
(* server's handler runs within the action.  DeleteUsageRequest is a       *)
(* request no code of the client sends.  The supplier collection, the      *)
(* inventory tab's memo and the notification list are not part of the      *)
(* state of this specification (see SpecSuppliers and SpecPage).           *)

\* Most documents in the server's Inventory collection.
MaxDocs == 2
\* Most locally created items (no _id) in the client's array.
MaxLocal == 1
\* Largest stock a form or a restock may produce.
MaxStock == 2
\* Most records in the Usage collection, and in the client's usage array
\* when it adds one.
MaxUsage == 1
\* The last instant at which an audit entry is made.
MaxClock == 4

\* What the forms hold: parseInt(...) || 0 of the stock field (a negative
\* number passes the client, the server's min: 0 rejects it), parseInt(...)
\* || 1 of the reorder level, parseFloat(...) || 0 of the daily usage.
StockInputs   == {-1, 0, MaxStock}
ReorderInputs == {2}
UsageInputs   == {0}
\* The quantities of a usage or a restock: parseInt of the field, > 0.
Quantities    == {1, MaxStock}
\* The Stock column of an imported row, parseInt(row.Stock || row.stock || 0).
ImportStocks  == {-1, MaxStock}

\* generateId's NaN: Math.max over an id that is not a number.
NaNId == -1

\* Inventory.findById: the index of the document, 0 if there is none.
findById(oid) ==
    IF \E i \in 1..Len(serverInventory) : serverInventory[i]._id = oid
    THEN CHOOSE i \in 1..Len(serverInventory) : serverInventory[i]._id = oid
    ELSE 0

\* generateId: 1 for an empty array, else Math.max(...ids) + 1; an item of the
\* server carries its id as a string, which makes the maximum NaN.
generateId(array) ==
    IF Len(array) = 0 THEN 1
    ELSE IF \E i \in 1..Len(array) : array[i]._id # 0 \/ array[i].id = NaNId
         THEN NaNId
         ELSE 1 + CHOOSE m \in {array[i].id : i \in 1..Len(array)} :
                     \A i \in 1..Len(array) : array[i].id <= m

\* The schema's validators: currentStock min 0, reorderLevel min 1,
\* dailyUsage min 0.
validates(doc) ==
    doc.currentStock >= 0 /\ doc.reorderLevel >= 1 /\ doc.dailyUsage >= 0

\* toJSON with { virtuals: true }: the document and its status virtual.
toJSON(doc) == [doc EXCEPT !.status = statusVirtual(doc)]

\* Object.assign(item, updatedData): the form's fields; a status field the
\* item carries stays as it is.
assignForm(item, stock, reorder, usage) ==
    [item EXCEPT !.currentStock = stock, !.reorderLevel = reorder,
                 !.dailyUsage = usage]

\* An audit entry: { action, details, user, timestamp }.
AuditEntry(action, ts) == [action |-> action, timestamp |-> ts]

\* The most entries the client's audit log keeps: slice(-500), slice(0, 500).
AuditCap == 500
\* The most entries GET /api/audit answers: parseInt(req.query.limit) || 500.
AuditLimit == 500

\* Array.prototype.slice(-n).
sliceLast(s, n) == SubSeq(s, Max(1, Len(s) - n + 1), Len(s))

\* addAuditEntryLocal: push the entry, keep the last 500.
addAuditEntryLocal(log, action, ts) ==
    IF Len(log) + 1 > AuditCap
    THEN sliceLast(Append(log, AuditEntry(action, ts)), AuditCap)
    ELSE Append(log, AuditEntry(action, ts))

\* addAuditEntry, response ok: unshift the entry, keep the first 500.
unshiftAuditEntry(log, entry) ==
    IF Len(log) + 1 > AuditCap
    THEN slice0(<<entry>> \o log, AuditCap)
    ELSE <<entry>> \o log

\* AuditLog.find().sort({ timestamp: -1 }): every entry of the collection
\* takes Date.now when it is saved, so the collection is in ascending order of
\* timestamp and the sort reverses it.
sortByTimestampDesc(log) == [i \in 1..Len(log) |-> log[Len(log) + 1 - i]]

\* GET /api/audit: the newest entries first, at most 500 of them.
getAudit(collection) == slice0(sortByTimestampDesc(collection), AuditLimit)

\* Usage.find().sort({ date: -1 }): a later date first, records of the same
\* date in the order of the collection.
RECURSIVE insertByDateDesc(_, _)
insertByDateDesc(sorted, record) ==
    IF sorted = <<>> THEN <<record>>
    ELSE IF Head(sorted).date >= record.date
         THEN <<Head(sorted)>> \o insertByDateDesc(Tail(sorted), record)
         ELSE <<record>> \o sorted

RECURSIVE sortByDateDesc(_)
sortByDateDesc(usage) ==
    IF usage = <<>> THEN <<>>
    ELSE insertByDateDesc(sortByDateDesc(SubSeq(usage, 1, Len(usage) - 1)),
                          usage[Len(usage)])

\* The elements of s at the indices keep, in order.
RECURSIVE selectSeq(_, _)
selectSeq(s, keep) ==
    IF s = <<>> THEN <<>>
    ELSE selectSeq(SubSeq(s, 1, Len(s) - 1), keep)
            \o (IF Len(s) \in keep THEN <<s[Len(s)]>> ELSE <<>>)

\* inventoryData.filter(i => getItemId(i) !== id && getItemId(i) !==
\* String(id)) for an id of the page.
withoutItem(inventory, id) ==
    selectSeq(inventory, {i \in 1..Len(inventory) : getItemId(inventory[i]) # id})

\* usageData.filter(u => u.itemId !== id ...) for an id of the page, and
\* Usage.deleteMany({ itemId }).
withoutUsageOf(usage, id) ==
    selectSeq(usage, {i \in 1..Len(usage) : usage[i].itemId # id})

\* saveAllData: the arrays as they are after the handler's changes.
saveAllData ==
    /\ storedInventory' = inventoryData'
    /\ storedUsage' = usageData'
    /\ storedAudit' = auditLog'

\* n audit entries are made, at the next n instants.
Tick(n) == clock + n <= MaxClock /\ clock' = clock + n

Init ==
    /\ inventoryData = <<>>
    /\ usageData = <<>>
    /\ suppliersData = <<>>
    /\ auditLog = <<>>
    /\ storedInventory = <<>>
    /\ storedUsage = <<>>
    /\ storedAudit = <<>>
    /\ serverInventory = <<>>
    /\ serverUsage = <<>>
    /\ serverAudit = <<>>
    /\ nextOid = 1
    /\ clock = 0
    /\ apiUp = TRUE
    /\ now = 0
    /\ pc = "client"
    /\ again = FALSE
    /\ statuses = <<>>
    /\ forecast = <<>>
    /\ recommendations = <<>>
    /\ topUsed = <<>>
    /\ trend = <<>>
    /\ InitElsewhere

\* The server or the network goes down, or comes back.
SetApi ==
    /\ apiUp' = ~apiUp
    /\ UNCHANGED <<inventoryData, usageData, auditLog, storedVars, serverVars,
                   clock, engineVars>>

\* initializeApp, loadDataFromAPI: GET /api/inventory answers every document
\* serialised with its virtuals, GET /api/usage the records by date, GET
\* /api/audit the newest entries.
LoadDataFromAPI ==
    /\ apiUp
    /\ inventoryData' = [i \in 1..Len(serverInventory) |-> toJSON(serverInventory[i])]
    /\ usageData' = sortByDateDesc(serverUsage)
    /\ auditLog' = getAudit(serverAudit)
    /\ UNCHANGED <<storedVars, serverVars, clock, apiUp, engineVars>>

\* initializeApp, loadDataFromStorage: fetch threw, the arrays come from
\* localStorage.
LoadDataFromStorage ==
    /\ ~apiUp
    /\ inventoryData' = storedInventory
    /\ usageData' = storedUsage
    /\ auditLog' = storedAudit
    /\ UNCHANGED <<storedVars, serverVars, clock, apiUp, engineVars>>

\* addNewItem, POST /api/inventory answered 201: the document and an audit
\* entry are saved, the saved item is pushed.
AddNewItemApi(stock, reorder, usage) ==
    LET doc == Item(nextOid, 0, stock, reorder, usage, NoStatus)
    IN  /\ apiUp /\ validates(doc)
        /\ Len(serverInventory) < MaxDocs
        /\ Tick(1)
        /\ serverInventory' = Append(serverInventory, doc)
        /\ serverAudit' = Append(serverAudit, AuditEntry("add", clock'))
        /\ nextOid' = nextOid + 1
        /\ inventoryData' = Append(inventoryData, toJSON(doc))
        /\ UNCHANGED <<usageData, auditLog, storedVars, serverUsage, apiUp,
                       engineVars>>

\* addNewItem, catch block: the item gets generateId's id and is saved locally.
AddNewItemLocal(stock, reorder, usage) ==
    LET newItem == Item(0, generateId(inventoryData), stock, reorder, usage, NoStatus)
    IN  /\ ~(apiUp /\ validates(newItem))
        /\ Cardinality({i \in 1..Len(inventoryData) : inventoryData[i]._id = 0})
              < MaxLocal
        /\ Tick(1)
        /\ inventoryData' = Append(inventoryData, newItem)
        /\ auditLog' = addAuditEntryLocal(auditLog, "add", clock')
        /\ UNCHANGED <<usageData, serverVars, apiUp, engineVars>>
        /\ saveAllData

\* updateItem on the k-th item, PATCH /api/inventory/:id answered ok: the
\* client's entry is replaced by the saved item.
UpdateItemApi(k, stock, reorder, usage) ==
    LET idx  == findIndex(inventoryData, domId(inventoryData[k]))
        sidx == findById(inventoryData[k]._id)
        doc  == assignForm(serverInventory[sidx], stock, reorder, usage)
    IN  /\ idx # 0
        /\ apiUp /\ sidx # 0 /\ validates(doc)
        /\ Tick(1)
        /\ serverInventory' = [serverInventory EXCEPT ![sidx] = doc]
        /\ serverAudit' = Append(serverAudit, AuditEntry("edit", clock'))
        /\ inventoryData' = [inventoryData EXCEPT ![idx] = toJSON(doc)]
        /\ UNCHANGED <<usageData, auditLog, storedVars, serverUsage, nextOid,
                       apiUp, engineVars>>

\* updateItem on the k-th item, catch block (fetch threw, 404 or a validation
\* error): Object.assign on the client's item, then saveAllData.
UpdateItemLocal(k, stock, reorder, usage) ==
    LET idx  == findIndex(inventoryData, domId(inventoryData[k]))
        sidx == findById(inventoryData[k]._id)
    IN  /\ idx # 0
        /\ ~(apiUp /\ sidx # 0
               /\ validates(assignForm(serverInventory[sidx], stock, reorder, usage)))
        /\ Tick(1)
        /\ inventoryData' = [inventoryData EXCEPT
                               ![idx] = assignForm(@, stock, reorder, usage)]
        /\ auditLog' = addAuditEntryLocal(auditLog, "edit", clock')
        /\ UNCHANGED <<usageData, serverVars, apiUp, engineVars>>
        /\ saveAllData

\* deleteItem on the k-th item, DELETE /api/inventory/:id answered ok and
\* DELETE /api/usage/item/:id reached the server: the document goes with an
\* audit entry, the item's usage records without one.
DeleteItemApi(k) ==
    LET id   == domId(inventoryData[k])
        idx  == findIndex(inventoryData, id)
        sidx == findById(inventoryData[k]._id)
    IN  /\ idx # 0
        /\ apiUp /\ sidx # 0
        /\ Tick(1)
        /\ serverInventory' = selectSeq(serverInventory,
                                        1..Len(serverInventory) \ {sidx})
        /\ serverAudit' = Append(serverAudit, AuditEntry("delete", clock'))
        /\ serverUsage' = withoutUsageOf(serverUsage, id)
        /\ inventoryData' = withoutItem(inventoryData, id)
        /\ usageData' = withoutUsageOf(usageData, id)
        /\ UNCHANGED <<auditLog, storedVars, nextOid, apiUp, engineVars>>

\* deleteItem on the k-th item, DELETE /api/inventory/:id answered ok and the
\* fetch of DELETE /api/usage/item/:id threw: the server keeps the item's
\* usage records, the catch block filters the client's arrays again, adds a
\* local audit entry and saves.
DeleteItemCut(k) ==
    LET id   == domId(inventoryData[k])
        idx  == findIndex(inventoryData, id)
        sidx == findById(inventoryData[k]._id)
    IN  /\ idx # 0
        /\ apiUp /\ sidx # 0
        /\ Tick(2)
        /\ apiUp' = FALSE
        /\ serverInventory' = selectSeq(serverInventory,
                                        1..Len(serverInventory) \ {sidx})
        /\ serverAudit' = Append(serverAudit, AuditEntry("delete", clock + 1))
        /\ inventoryData' = withoutItem(withoutItem(inventoryData, id), id)
        /\ usageData' = withoutUsageOf(usageData, id)
        /\ auditLog' = addAuditEntryLocal(auditLog, "delete", clock')
        /\ UNCHANGED <<serverUsage, nextOid, engineVars>>
        /\ saveAllData

\* deleteItem on the k-th item, catch block (fetch threw or 404): the item and
\* its usage records leave the client's arrays.
DeleteItemLocal(k) ==
    LET id   == domId(inventoryData[k])
        idx  == findIndex(inventoryData, id)
        sidx == findById(inventoryData[k]._id)
    IN  /\ idx # 0
        /\ ~(apiUp /\ sidx # 0)
        /\ Tick(1)
        /\ inventoryData' = withoutItem(inventoryData, id)
        /\ usageData' = withoutUsageOf(usageData, id)
        /\ auditLog' = addAuditEntryLocal(auditLog, "delete", clock')
        /\ UNCHANGED <<serverVars, apiUp, engineVars>>
        /\ saveAllData

\* recordUsage on the k-th item, POST /api/usage answered 201: the server
\* clamps the stock at 0, saves the item, the usage record and an audit entry,
\* and answers the record and the item, which replaces the client's.
RecordUsageApi(k, quantity) ==
    LET id    == domId(inventoryData[k])
        idx   == findIndex(inventoryData, id)
        sidx  == findById(inventoryData[k]._id)
        doc   == [serverInventory[sidx] EXCEPT
                     !.currentStock = Max(0, @ - quantity)]
        usage == Usage(nextOid, 0, id, quantity, now)
    IN  /\ idx # 0
        /\ apiUp /\ sidx # 0 /\ validates(doc)
        /\ Len(serverUsage) < MaxUsage
        /\ Tick(1)
        /\ serverInventory' = [serverInventory EXCEPT ![sidx] = doc]
        /\ serverUsage' = Append(serverUsage, usage)
        /\ serverAudit' = Append(serverAudit, AuditEntry("usage", clock'))
        /\ nextOid' = nextOid + 1
        /\ usageData' = Append(usageData, usage)
        /\ inventoryData' = [inventoryData EXCEPT ![idx] = toJSON(doc)]
        /\ UNCHANGED <<auditLog, storedVars, apiUp, engineVars>>

\* recordUsage on the k-th item, catch block: item.currentStock =
\* Math.max(0, item.currentStock - quantity), a usage record with
\* generateId's id, a local audit entry, then saveAllData.
RecordUsageLocal(k, quantity) ==
    LET idx  == findIndex(inventoryData, domId(inventoryData[k]))
        sidx == findById(inventoryData[k]._id)
    IN  /\ idx # 0
        /\ ~(apiUp /\ sidx # 0
               /\ validates([serverInventory[sidx] EXCEPT
                                !.currentStock = Max(0, @ - quantity)]))
        /\ Len(usageData) < MaxUsage
        /\ Tick(1)
        /\ inventoryData' = [inventoryData EXCEPT
                               ![idx].currentStock = Max(0, @ - quantity)]
        /\ usageData' = Append(usageData,
                               Usage(0, generateId(usageData),
                                     getItemId(inventoryData[idx]), quantity, now))
        /\ auditLog' = addAuditEntryLocal(auditLog, "usage", clock')
        /\ UNCHANGED <<serverVars, apiUp, engineVars>>
        /\ saveAllData

\* restockItem on the k-th item, PATCH /api/inventory/:id/restock answered ok.
RestockItemApi(k, quantity) ==
    LET idx  == findIndex(inventoryData, domId(inventoryData[k]))
        sidx == findById(inventoryData[k]._id)
        doc  == [serverInventory[sidx] EXCEPT !.currentStock = @ + quantity]
    IN  /\ idx # 0
        /\ apiUp /\ sidx # 0 /\ validates(doc)
        /\ doc.currentStock <= MaxStock
        /\ Tick(1)
        /\ serverInventory' = [serverInventory EXCEPT ![sidx] = doc]
        /\ serverAudit' = Append(serverAudit, AuditEntry("restock", clock'))
        /\ inventoryData' = [inventoryData EXCEPT ![idx] = toJSON(doc)]
        /\ UNCHANGED <<usageData, auditLog, storedVars, serverUsage, nextOid,
                       apiUp, engineVars>>

\* restockItem on the k-th item, catch block: item.currentStock += quantity,
\* then saveAllData.
RestockItemLocal(k, quantity) ==
    LET idx  == findIndex(inventoryData, domId(inventoryData[k]))
        sidx == findById(inventoryData[k]._id)
    IN  /\ idx # 0
        /\ ~(apiUp /\ sidx # 0
               /\ validates([serverInventory[sidx] EXCEPT
                                !.currentStock = @ + quantity]))
        /\ inventoryData[idx].currentStock + quantity <= MaxStock
        /\ Tick(1)
        /\ inventoryData' = [inventoryData EXCEPT ![idx].currentStock = @ + quantity]
        /\ auditLog' = addAuditEntryLocal(auditLog, "restock", clock')
        /\ UNCHANGED <<usageData, serverVars, apiUp, engineVars>>
        /\ saveAllData

\* A plausible slip: item.currentStock = usage.quantity for +=.
restoreStockAssigned(usage) ==
    IF findById(usage.itemId.v) # 0
    THEN [serverInventory EXCEPT
            ![findById(usage.itemId.v)].currentStock = usage.quantity]
    ELSE serverInventory

\* DELETE /api/usage/:id: if (item) { item.currentStock += usage.quantity;
\* await item.save() }, the Inventory collection after it.
restoreStock(usage) ==
    IF findById(usage.itemId.v) # 0
    THEN [serverInventory EXCEPT
            ![findById(usage.itemId.v)].currentStock = @ + usage.quantity]
    ELSE serverInventory

\* DELETE /api/usage/:id for the u-th record of the collection: the quantity
\* goes back onto the item if it is still there, the record is deleted.
DeleteUsageRequest(u) ==
    LET usage == serverUsage[u]
    IN  /\ apiUp
        /\ serverInventory' = restoreStock(usage)
        /\ serverUsage' = selectSeq(serverUsage, 1..Len(serverUsage) \ {u})
        /\ UNCHANGED <<inventoryData, usageData, auditLog, storedVars,
                       serverAudit, nextOid, clock, apiUp, engineVars>>

\* importInventory of a sheet with one row: the row is pushed with
\* generateId's id, saveAllData runs, and addAuditEntry's POST /api/audit is
\* answered 201 after it: the entry is unshifted onto the client's log.
ImportInventoryApi(stock, reorder, usage) ==
    /\ apiUp
    /\ Cardinality({i \in 1..Len(inventoryData) : inventoryData[i]._id = 0})
          < MaxLocal
    /\ Tick(1)
    /\ inventoryData' = Append(inventoryData,
          Item(0, generateId(inventoryData), stock, reorder, usage, NoStatus))
    /\ serverAudit' = Append(serverAudit, AuditEntry("add", clock'))
    /\ auditLog' = unshiftAuditEntry(auditLog, AuditEntry("add", clock'))
    /\ storedInventory' = inventoryData'
    /\ storedUsage' = usageData
    /\ storedAudit' = auditLog
    /\ UNCHANGED <<usageData, serverInventory, serverUsage, nextOid, apiUp,
                   engineVars>>

\* importInventory of a sheet with one row, addAuditEntry's fetch threw: the
\* entry goes through addAuditEntryLocal, after saveAllData ran.
ImportInventoryLocal(stock, reorder, usage) ==
    /\ ~apiUp
    /\ Cardinality({i \in 1..Len(inventoryData) : inventoryData[i]._id = 0})
          < MaxLocal
    /\ Tick(1)
    /\ inventoryData' = Append(inventoryData,
          Item(0, generateId(inventoryData), stock, reorder, usage, NoStatus))
    /\ auditLog' = addAuditEntryLocal(auditLog, "add", clock')
    /\ storedInventory' = inventoryData'
    /\ storedUsage' = usageData
    /\ storedAudit' = auditLog
    /\ UNCHANGED <<usageData, serverVars, apiUp, engineVars>>

Next ==
    \/ SetApi
    \/ LoadDataFromAPI
    \/ LoadDataFromStorage
    \/ \E s \in StockInputs, r \in ReorderInputs, u \in UsageInputs :
          AddNewItemApi(s, r, u)
    \/ \E s \in StockInputs, r \in ReorderInputs, u \in UsageInputs :
          AddNewItemLocal(s, r, u)
    \/ \E k \in 1..Len(inventoryData), s \in StockInputs, r \in ReorderInputs,
          u \in UsageInputs : UpdateItemApi(k, s, r, u)
    \/ \E k \in 1..Len(inventoryData), s \in StockInputs, r \in ReorderInputs,
          u \in UsageInputs : UpdateItemLocal(k, s, r, u)
    \/ \E k \in 1..Len(inventoryData) : DeleteItemApi(k)
    \/ \E k \in 1..Len(inventoryData) : DeleteItemCut(k)
    \/ \E k \in 1..Len(inventoryData) : DeleteItemLocal(k)
    \/ \E k \in 1..Len(inventoryData), q \in Quantities : RecordUsageApi(k, q)
    \/ \E k \in 1..Len(inventoryData), q \in Quantities : RecordUsageLocal(k, q)
    \/ \E k \in 1..Len(inventoryData), q \in Quantities : RestockItemApi(k, q)
    \/ \E k \in 1..Len(inventoryData), q \in Quantities : RestockItemLocal(k, q)
    \/ \E u \in 1..Len(serverUsage) : DeleteUsageRequest(u)
    \/ \E s \in ImportStocks, r \in ReorderInputs, u \in UsageInputs :
          ImportInventoryApi(s, r, u)
    \/ \E s \in ImportStocks, r \in ReorderInputs, u \in UsageInputs :
          ImportInventoryLocal(s, r, u)

Spec == Init /\ [][Next]_vars

\* The operations begun where the server has made AuditCap audit entries, at
\* the instants up to 1 (by as many requests that added and deleted an item),
\* and this client starts.
InitAudit ==
    /\ inventoryData = <<>>
    /\ usageData = <<>>
    /\ suppliersData = <<>>
    /\ auditLog = <<>>
    /\ storedInventory = <<>>
    /\ storedUsage = <<>>
    /\ storedAudit = <<>>
    /\ serverInventory = <<>>
    /\ serverUsage = <<>>
    /\ serverAudit = [i \in 1..AuditCap |->
                        AuditEntry(IF i % 2 = 1 THEN "add" ELSE "delete",
                                   i + 1 - AuditCap)]
    /\ nextOid = 1 + AuditCap \div 2
    /\ clock = 1
    /\ apiUp = TRUE
    /\ now = 0
    /\ pc = "client"
    /\ again = FALSE
    /\ statuses = <<>>
    /\ forecast = <<>>
    /\ recommendations = <<>>
    /\ topUsed = <<>>
    /\ trend = <<>>
    /\ InitElsewhere

SpecAudit == InitAudit /\ [][Next]_vars

----------------------------------------------------------------------------
(* SpecSuppliers: the supplier collection and the items that refer to it   *)
(*                                                                         *)
(* The page has loaded the suppliers and the inventory from the API; the   *)
(* user adds and deletes suppliers and looks at the inventory table.  The  *)
(* stored copy of suppliersData is not part of the state.                  *)

\* Most documents in the Supplier collection when the page loads.
MaxSupplierDocs == 2
\* Most items in the Inventory collection when the page loads.
MaxSupplierItems == 1
\* Most suppliers the user adds.
MaxAddedSuppliers == 1

\* A supplier: _id the server's ObjectId (0: none), id the number generateId
\* gave a supplier made locally (0: none).  The name stands with the id.
Supplier(oid, lid) == [_id |-> oid, id |-> lid]

\* supplierId: null (no supplier).
Null == [kind |-> "null", v |-> 0]

\* An inventory item with its supplierId: Null, an ObjectId, or after
\* populate('supplierId') the supplier's document.
ItemOf(item, ref) ==
    [_id |-> item._id, id |-> item.id, currentStock |-> item.currentStock,
     reorderLevel |-> item.reorderLevel, dailyUsage |-> item.dailyUsage,
     status |-> item.status, supplierId |-> ref]

\* populate('supplierId', ...): the supplier's document in place of its id,
\* null if the collection has no such document.
populate(doc, suppliers) ==
    IF findIndex(suppliers, doc.supplierId) # 0
    THEN [doc EXCEPT !.supplierId = [kind |-> "populated", v |-> @.v]]
    ELSE [doc EXCEPT !.supplierId = Null]

\* item.supplierId?._id || item.supplierId.
supplierIdOf(item) ==
    IF item.supplierId.kind = "populated" THEN Oid(item.supplierId.v)
    ELSE item.supplierId

\* The cell of an item without a supplier in suppliersData: '-'.
Dash == [dash |-> TRUE, supplier |-> 0]

\* renderInventoryTable: supplier ? supplier.name : '-', the supplier found
\* by suppliersData.find(s => getItemId(s) === supplierId || getItemId(s)
\* === String(supplierId)).
supplierCell(item, suppliers) ==
    IF findIndex(suppliers, supplierIdOf(item)) # 0
    THEN [dash |-> FALSE,
          supplier |-> suppliers[findIndex(suppliers, supplierIdOf(item))]._id]
    ELSE Dash

\* A plausible slip: a delete that also clears the supplierId of the items
\* that refer to the supplier.
itemsAfterSupplierDeleteCascade(items, id) ==
    [i \in 1..Len(items) |->
        IF supplierIdOf(items[i]) = id
        THEN [items[i] EXCEPT !.supplierId = Null]
        ELSE items[i]]

\* DELETE /api/suppliers/:id and deleteSupplier: neither has a statement on
\* the Inventory collection or on inventoryData.
itemsAfterSupplierDelete(items, id) == items

\* suppliersData.filter(s => getItemId(s) !== id && getItemId(s) !==
\* String(id)) for an id of the page.
withoutSupplier(suppliers, id) ==
    selectSeq(suppliers, {i \in 1..Len(suppliers) : getItemId(suppliers[i]) # id})

\* The documents the page loads: up to MaxSupplierDocs suppliers with the
\* ObjectIds 1, 2, ..., and items that have no supplier, refer to one of them
\* or refer to a supplier that was deleted earlier (ObjectId MaxSupplierDocs
\* + 1).
SupplierRefs == {Null} \cup {Oid(n) : n \in 1..(MaxSupplierDocs + 1)}
SupplierItems(k) ==
    {ItemOf(Item(k, 0, 8, 8, 0, NoStatus), ref) : ref \in SupplierRefs}

\* What the page keeps apart from the suppliers and the inventory.
InitBesideSuppliers ==
    /\ usageData = <<>>
    /\ auditLog = <<>>
    /\ storedInventory = <<>>
    /\ storedUsage = <<>>
    /\ storedAudit = <<>>
    /\ serverUsage = <<>>
    /\ serverAudit = <<>>
    /\ clock = 0
    /\ apiUp = TRUE
    /\ now = 0
    /\ pc = "loaded"
    /\ again = FALSE
    /\ statuses = <<>>
    /\ forecast = <<>>
    /\ recommendations = <<>>
    /\ topUsed = <<>>
    /\ trend = <<>>
    /\ inventoryTable = <<>>
    /\ filters = [status |-> "", sortBy |-> "name"]
    /\ filterCache = [key |-> <<>>, result |-> <<>>]
    /\ notifications = <<>>
    /\ handlers = <<>>
    /\ subscriptions = <<>>
    /\ report = [successful |-> 0, failed |-> 0, total |-> 0, sent |-> {}]

\* After loadDataFromAPI: suppliersData is the Supplier collection and
\* inventoryData the Inventory collection, serialised and populated.
InitSuppliers ==
    /\ \E n \in 1..MaxSupplierDocs :
          serverSuppliers = [k \in 1..n |-> Supplier(k, 0)]
    /\ \E n \in 1..MaxSupplierItems : \E f \in [1..n -> SupplierItems(0)] :
          serverInventory =
              [k \in 1..n |-> [f[k] EXCEPT !._id = MaxSupplierDocs + 1 + k]]
    /\ nextOid = MaxSupplierDocs + MaxSupplierItems + 2
    /\ suppliersData = serverSuppliers
    /\ inventoryData = [k \in 1..Len(serverInventory) |->
                           toJSON(populate(serverInventory[k], serverSuppliers))]
    /\ InitBesideSuppliers

\* What the supplier operations leave alone.
besideSuppliers ==
    <<usageData, storedUsage, serverUsage, now, again, statuses, forecast,
      recommendations, topUsed, trend, pageVars, handlers, pushVars>>

\* The server or the network goes down, or comes back.
SetSupplierApi ==
    /\ apiUp' = ~apiUp
    /\ UNCHANGED <<inventoryData, suppliersData, auditLog, storedInventory,
                   storedAudit, serverInventory, serverAudit, nextOid, clock,
                   pc, supplierVars, besideSuppliers>>

\* addSupplier, POST /api/suppliers answered 201: the document and an audit
\* entry are saved, the saved supplier is pushed.
AddSupplierApi ==
    /\ apiUp
    /\ Len(suppliersData) < MaxSupplierDocs + MaxAddedSuppliers
    /\ Tick(1)
    /\ serverSuppliers' = Append(serverSuppliers, Supplier(nextOid, 0))
    /\ serverAudit' = Append(serverAudit, AuditEntry("add", clock'))
    /\ nextOid' = nextOid + 1
    /\ suppliersData' = Append(suppliersData, Supplier(nextOid, 0))
    /\ pc' = "suppliers"
    /\ UNCHANGED <<inventoryData, auditLog, storedInventory, storedAudit,
                   serverInventory, apiUp, inventoryTable, besideSuppliers>>

\* addSupplier, catch block: the supplier gets generateId's id, a local audit
\* entry is added and saveAllData runs.
AddSupplierLocal ==
    /\ ~apiUp
    /\ Len(suppliersData) < MaxSupplierDocs + MaxAddedSuppliers
    /\ Tick(1)
    /\ suppliersData' = Append(suppliersData,
                               Supplier(0, generateId(suppliersData)))
    /\ auditLog' = addAuditEntryLocal(auditLog, "add", clock')
    /\ storedInventory' = inventoryData
    /\ storedAudit' = auditLog'
    /\ pc' = "suppliers"
    /\ UNCHANGED <<inventoryData, serverInventory, serverAudit, nextOid, apiUp,
                   supplierVars, besideSuppliers>>

\* deleteSupplier on the k-th supplier, DELETE /api/suppliers/:id answered
\* ok: the document goes with an audit entry, the client filters its array.
DeleteSupplierApi(k) ==
    LET id   == domId(suppliersData[k])
        sidx == findIndex(serverSuppliers, id)
    IN  /\ findIndex(suppliersData, id) # 0
        /\ apiUp /\ sidx # 0
        /\ Tick(1)
        /\ serverSuppliers' = selectSeq(serverSuppliers,
                                        1..Len(serverSuppliers) \ {sidx})
        /\ serverInventory' = itemsAfterSupplierDelete(serverInventory, id)
        /\ serverAudit' = Append(serverAudit, AuditEntry("delete", clock'))
        /\ suppliersData' = withoutSupplier(suppliersData, id)
        /\ inventoryData' = itemsAfterSupplierDelete(inventoryData, id)
        /\ pc' = "suppliers"
        /\ UNCHANGED <<auditLog, storedInventory, storedAudit, nextOid, apiUp,
                       inventoryTable, besideSuppliers>>

\* deleteSupplier on the k-th supplier, catch block (fetch threw or 404): the
\* client filters its array, adds a local audit entry and saves.
DeleteSupplierLocal(k) ==
    LET id == domId(suppliersData[k])
    IN  /\ findIndex(suppliersData, id) # 0
        /\ ~(apiUp /\ findIndex(serverSuppliers, id) # 0)
        /\ Tick(1)
        /\ suppliersData' = withoutSupplier(suppliersData, id)
        /\ inventoryData' = itemsAfterSupplierDelete(inventoryData, id)
        /\ auditLog' = addAuditEntryLocal(auditLog, "delete", clock')
        /\ storedInventory' = inventoryData'
        /\ storedAudit' = auditLog'
        /\ pc' = "suppliers"
        /\ UNCHANGED <<serverInventory, serverAudit, nextOid, apiUp,
                       supplierVars, besideSuppliers>>

\* setInventoryView('table'), renderInventoryTable: the supplier cell of
\* every row.
RenderInventoryTable ==
    /\ inventoryTable' = [i \in 1..Len(inventoryData) |->
                             supplierCell(inventoryData[i], suppliersData)]
    /\ pc' = "table"
    /\ UNCHANGED <<inventoryData, suppliersData, auditLog, storedInventory,
                   storedAudit, serverInventory, serverAudit, nextOid, clock,
                   apiUp, serverSuppliers, besideSuppliers>>

NextSuppliers ==
    \/ SetSupplierApi
    \/ AddSupplierApi
    \/ AddSupplierLocal
    \/ \E k \in 1..Len(suppliersData) : DeleteSupplierApi(k)
    \/ \E k \in 1..Len(suppliersData) : DeleteSupplierLocal(k)
    \/ RenderInventoryTable

SpecSuppliers == InitSuppliers /\ [][NextSuppliers]_vars

----------------------------------------------------------------------------
(* The inventory tab and the notification list (SpecPage)                  *)
(*                                                                         *)
(* The client's inventory array, the Inventory collection, the tab's       *)
(* filter settings, the memo of getFilteredInventory and the notification  *)
(* list, within one visit of the page.  Every handler is taken with what   *)
(* it does to these; the usage records, the audit entries and the copies   *)
(* in localStorage it writes are those of Spec.  All items carry the same  *)
(* name and category and the search box is empty, so the filter is the     *)
(* status filter and the default sort (by name) keeps the array's order.   *)

\* Most documents the Inventory collection is given.
MaxPageDocs == 1
\* Most notifications in the client's list.
MaxNotifications == 2

\* Largest stock of an item of the tab.
MaxPageStock == 3

\* The stock and the reorder level the forms hold, the quantity of a usage
\* or a restock.
PageStocks  == {0, MaxPageStock}
PageReorder == 1
PageQuantities == {1}
\* The options of #status-filter and #sort-by the tab is used with.
StatusFilters == {"", Low}
SortKeys      == {"name", "stock"}

\* getCacheKey: `${search}|${category}|${status}|${sortBy}|${length}`, with
\* the search and the category empty.
getCacheKey(inventory, f) == <<f.status, f.sortBy, Len(inventory)>>

\* invalidateFilterCache, and the memo of a page just loaded.
invalidateFilterCache == [key |-> <<>>, result |-> <<>>]

\* Array.prototype.sort with (a, b) => a.currentStock - b.currentStock: stable.
RECURSIVE insertByStock(_, _)
insertByStock(sorted, item) ==
    IF sorted = <<>> THEN <<item>>
    ELSE IF sorted[Len(sorted)].currentStock <= item.currentStock
         THEN Append(sorted, item)
         ELSE Append(insertByStock(SubSeq(sorted, 1, Len(sorted) - 1), item),
                     sorted[Len(sorted)])

RECURSIVE sortByStock(_)
sortByStock(items) ==
    IF items = <<>> THEN <<>>
    ELSE insertByStock(sortByStock(SubSeq(items, 1, Len(items) - 1)),
                       items[Len(items)])

\* The body of getFilteredInventory below the memo: the status filter, then
\* the sort.
filterAndSort(inventory, f) ==
    LET filtered ==
            IF f.status = "" THEN inventory
            ELSE selectSeq(inventory,
                           {i \in 1..Len(inventory) :
                               getItemStatus(inventory[i]) = f.status})
    IN  IF f.sortBy = "stock" THEN sortByStock(filtered) ELSE filtered

\* A plausible slip: the memo is never consulted.
getFilteredInventoryFresh(cache, inventory, f) ==
    [key |-> getCacheKey(inventory, f), result |-> filterAndSort(inventory, f)]

\* getFilteredInventory: the memo after the call; its result is the list the
\* call returns and renderInventory shows.
getFilteredInventory(cache, inventory, f) ==
    IF cache.key = getCacheKey(inventory, f) THEN cache
    ELSE [key |-> getCacheKey(inventory, f), result |-> filterAndSort(inventory, f)]

\* a === b for two ids: NaN equals nothing, itself included.
strictEquals(a, b) == a = b /\ ~(a.kind = "num" /\ a.v = NaNId)

\* A notification; it has no _id.
Notification(id, itemId) ==
    [_id |-> 0, id |-> id, itemId |-> itemId, read |-> FALSE]

\* checkLowStockAlerts from the k-th item on: an item that is not Healthy
\* and has no unread notification gets one, with generateId's id.
RECURSIVE alertsFrom(_, _, _)
alertsFrom(list, inventory, k) ==
    IF k > Len(inventory) THEN list
    ELSE LET itemId   == getItemId(inventory[k])
             existing == \E n \in 1..Len(list) :
                            strictEquals(list[n].itemId, itemId) /\ ~list[n].read
         IN  alertsFrom(IF getItemStatus(inventory[k]) # Healthy /\ ~existing
                        THEN Append(list, Notification(generateId(list), itemId))
                        ELSE list,
                        inventory, k + 1)

checkLowStockAlerts(list, inventory) == alertsFrom(list, inventory, 1)

\* JSON.parse(JSON.stringify(id)): NaN is written as null, which reads as no
\* id at all.
jsonId(id) == IF id = NaNId THEN 0 ELSE id

\* loadFromStorage of what saveToStorage wrote.
inventoryFromStorage(stored) ==
    [i \in 1..Len(stored) |-> [stored[i] EXCEPT !.id = jsonId(@)]]
notificationsFromStorage(list) ==
    [n \in 1..Len(list) |->
        [list[n] EXCEPT !.itemId = IF @.kind = "num"
                                   THEN [kind |-> "num", v |-> jsonId(@.v)]
                                   ELSE @]]

\* loadDataFromAPI's inventory, or loadDataFromStorage's when fetch throws.
loadedInventory(stored) ==
    IF apiUp
    THEN [i \in 1..Len(serverInventory) |-> toJSON(serverInventory[i])]
    ELSE inventoryFromStorage(stored)

\* The backup files restoreData is given: up to MaxPageDocs items of the
\* server, as backupData wrote them.
Backups ==
    {<<>>} \cup
    UNION {[1..n -> {toJSON(Item(k, 0, s, PageReorder, 0, NoStatus)) :
                        k \in 1..MaxPageDocs, s \in PageStocks}] :
              n \in 1..MaxPageDocs}

\* What the handlers of the tab leave alone.
besidePage ==
    <<storedInventory, usageData, suppliersData, auditLog, storedUsage, storedAudit,
      serverUsage, serverAudit, clock, now, again, statuses, forecast,
      recommendations, topUsed, trend, supplierVars, handlers, pushVars>>

\* The page before anything was added: initializeApp ran on an empty store.
InitPage ==
    /\ inventoryData = <<>>
    /\ usageData = <<>>
    /\ suppliersData = <<>>
    /\ auditLog = <<>>
    /\ storedInventory = <<>>
    /\ storedUsage = <<>>
    /\ storedAudit = <<>>
    /\ serverInventory = <<>>
    /\ serverUsage = <<>>
    /\ serverAudit = <<>>
    /\ nextOid = 1
    /\ clock = 0
    /\ apiUp = TRUE
    /\ now = 0
    /\ pc = "alerts"
    /\ again = FALSE
    /\ statuses = <<>>
    /\ forecast = <<>>
    /\ recommendations = <<>>
    /\ topUsed = <<>>
    /\ trend = <<>>
    /\ serverSuppliers = <<>>
    /\ inventoryTable = <<>>
    /\ filters = [status |-> "", sortBy |-> "name"]
    /\ filterCache = getFilteredInventory(invalidateFilterCache, <<>>, filters)
    /\ notifications = <<>>
    /\ handlers = <<>>
    /\ subscriptions = <<>>
    /\ report = [successful |-> 0, failed |-> 0, total |-> 0, sent |-> {}]

\* The end of a handler that changed the inventory: invalidateFilterCache,
\* renderInventory.
PageChanged(inventory, server, oid) ==
    /\ inventoryData' = inventory
    /\ serverInventory' = server
    /\ nextOid' = oid
    /\ filterCache' = getFilteredInventory(invalidateFilterCache, inventory, filters)
    /\ pc' = "page"
    /\ UNCHANGED <<apiUp, filters, notifications, besidePage>>

\* initializeApp as restoreData calls it, localStorage holding what
\* saveAllData just wrote: the arrays are loaded from the API or from
\* localStorage, renderInventory, checkLowStockAlerts.
initializeApp(stored) ==
    LET inventory == loadedInventory(stored)
        alerts    == checkLowStockAlerts(notificationsFromStorage(notifications),
                                         inventory)
    IN  /\ Len(alerts) <= MaxNotifications
        /\ inventoryData' = inventory
        /\ filterCache' = getFilteredInventory(filterCache, inventory, filters)
        /\ notifications' = alerts
        /\ pc' = "alerts"
        /\ UNCHANGED <<serverInventory, nextOid, apiUp, filters, besidePage>>

\* The server or the network goes down, or comes back.
SetPageApi ==
    /\ apiUp' = ~apiUp
    /\ UNCHANGED <<inventoryData, serverInventory, nextOid,
                   filters, filterCache, notifications, pc, besidePage>>

\* A change of #status-filter or #sort-by: invalidateFilterCache,
\* renderInventory.
SetFilter(status, sortBy) ==
    /\ filters' = [status |-> status, sortBy |-> sortBy]
    /\ filters' # filters
    /\ filterCache' = getFilteredInventory(invalidateFilterCache, inventoryData, filters')
    /\ pc' = "page"
    /\ UNCHANGED <<inventoryData, serverInventory, nextOid,
                   apiUp, notifications, besidePage>>

\* addNewItem: the saved item is pushed, or in the catch block the new item
\* with generateId's id, followed by saveAllData.
PageAddNewItem(stock) ==
    LET doc     == Item(nextOid, 0, stock, PageReorder, 0, NoStatus)
        newItem == Item(0, generateId(inventoryData), stock, PageReorder, 0, NoStatus)
    IN  IF apiUp
        THEN /\ nextOid <= MaxPageDocs
             /\ PageChanged(Append(inventoryData, toJSON(doc)),
                            Append(serverInventory, doc), nextOid + 1)
        ELSE /\ \A i \in 1..Len(inventoryData) : inventoryData[i]._id # 0
             /\ PageChanged(Append(inventoryData, newItem), serverInventory,
                            nextOid)

\* updateItem on the k-th item: the saved item replaces the client's, or in
\* the catch block Object.assign and saveAllData.
PageUpdateItem(k, stock) ==
    LET idx  == findIndex(inventoryData, domId(inventoryData[k]))
        sidx == findById(inventoryData[k]._id)
        doc  == assignForm(serverInventory[sidx], stock, PageReorder, 0)
        here == [inventoryData EXCEPT ![idx] = assignForm(@, stock, PageReorder, 0)]
    IN  /\ idx # 0
        /\ IF apiUp /\ sidx # 0
           THEN PageChanged([inventoryData EXCEPT ![idx] = toJSON(doc)],
                            [serverInventory EXCEPT ![sidx] = doc], nextOid)
           ELSE PageChanged(here, serverInventory, nextOid)

\* deleteItem on the k-th item: the item leaves the array; the catch block
\* saves.
PageDeleteItem(k) ==
    LET id   == domId(inventoryData[k])
        sidx == findById(inventoryData[k]._id)
        here == withoutItem(inventoryData, id)
    IN  /\ findIndex(inventoryData, id) # 0
        /\ IF apiUp /\ sidx # 0
           THEN PageChanged(here,
                            selectSeq(serverInventory,
                                      1..Len(serverInventory) \ {sidx}),
                            nextOid)
           ELSE PageChanged(here, serverInventory, nextOid)

\* recordUsage on the k-th item: the answered item replaces the client's, or
\* in the catch block the stock is clamped at 0 and saved; then
\* invalidateFilterCache, renderInventory, checkLowStockAlerts.
PageRecordUsage(k, quantity) ==
    LET idx    == findIndex(inventoryData, domId(inventoryData[k]))
        sidx   == findById(inventoryData[k]._id)
        ok     == apiUp /\ sidx # 0
        doc    == [serverInventory[sidx] EXCEPT
                      !.currentStock = Max(0, @ - quantity)]
        here   == IF ok THEN [inventoryData EXCEPT ![idx] = toJSON(doc)]
                  ELSE [inventoryData EXCEPT
                           ![idx].currentStock = Max(0, @ - quantity)]
        alerts == checkLowStockAlerts(notifications, here)
    IN  /\ idx # 0
        /\ Len(alerts) <= MaxNotifications
        /\ inventoryData' = here
        /\ serverInventory' = IF ok THEN [serverInventory EXCEPT ![sidx] = doc]
                              ELSE serverInventory
        /\ filterCache' = getFilteredInventory(invalidateFilterCache, here, filters)
        /\ notifications' = alerts
        /\ pc' = "alerts"
        /\ UNCHANGED <<nextOid, apiUp, filters, besidePage>>

\* restockItem on the k-th item.
PageRestockItem(k, quantity) ==
    LET idx  == findIndex(inventoryData, domId(inventoryData[k]))
        sidx == findById(inventoryData[k]._id)
        doc  == [serverInventory[sidx] EXCEPT !.currentStock = @ + quantity]
        here == [inventoryData EXCEPT ![idx].currentStock = @ + quantity]
    IN  /\ idx # 0
        /\ inventoryData[idx].currentStock + quantity <= MaxPageStock
        /\ IF apiUp /\ sidx # 0
           THEN /\ doc.currentStock <= MaxPageStock
                /\ PageChanged([inventoryData EXCEPT ![idx] = toJSON(doc)],
                               [serverInventory EXCEPT ![sidx] = doc], nextOid)
           ELSE PageChanged(here, serverInventory, nextOid)

\* importInventory of a sheet with one row: the row is pushed with
\* generateId's id, saveAllData, renderInventory.
PageImportInventory(stock) ==
    LET here == Append(inventoryData,
                       Item(0, generateId(inventoryData), stock, PageReorder, 0,
                            NoStatus))
    IN  /\ \A i \in 1..Len(inventoryData) : inventoryData[i]._id # 0
        /\ inventoryData' = here
        /\ filterCache' = getFilteredInventory(filterCache, here, filters)
        /\ pc' = "page"
        /\ UNCHANGED <<serverInventory, nextOid, apiUp, filters, notifications,
                       besidePage>>

\* restoreData: the arrays become the backup's, saveAllData, initializeApp.
RestoreData(backup) == initializeApp(backup)

\* resetData: the collections are cleared if the server is reached,
\* localStorage and the arrays are emptied, renderInventory.
ResetData ==
    /\ inventoryData # <<>>
    /\ inventoryData' = <<>>
    /\ serverInventory' = IF apiUp THEN <<>> ELSE serverInventory
    /\ notifications' = <<>>
    /\ filterCache' = getFilteredInventory(filterCache, <<>>, filters)
    /\ pc' = "page"
    /\ UNCHANGED <<nextOid, apiUp, filters, besidePage>>

\* markNotificationRead of the n-th notification: the page passes its id as
\* a number, and find gives the first notification with that id.
MarkNotificationRead(n) ==
    LET first == CHOOSE m \in 1..Len(notifications) :
                    /\ notifications[m].id = notifications[n].id
                    /\ \A j \in 1..(m - 1) : notifications[j].id # notifications[n].id
    IN  /\ ~notifications[first].read
        /\ notifications' = [notifications EXCEPT ![first].read = TRUE]
        /\ pc' = "page"
        /\ UNCHANGED <<inventoryData, serverInventory, nextOid,
                       apiUp, filters, filterCache, besidePage>>

\* clearNotifications.
ClearNotifications ==
    /\ notifications # <<>>
    /\ notifications' = <<>>
    /\ pc' = "page"
    /\ UNCHANGED <<inventoryData, serverInventory, nextOid,
                   apiUp, filters, filterCache, besidePage>>

NextPage ==
    \/ SetPageApi
    \/ \E st \in StatusFilters, sb \in SortKeys : SetFilter(st, sb)
    \/ \E s \in PageStocks : PageAddNewItem(s)
    \/ \E k \in 1..Len(inventoryData), q \in PageQuantities : PageRestockItem(k, q)
    \/ \E k \in 1..Len(inventoryData), s \in PageStocks : PageUpdateItem(k, s)
    \/ \E k \in 1..Len(inventoryData) : PageDeleteItem(k)
    \/ \E k \in 1..Len(inventoryData), q \in PageQuantities : PageRecordUsage(k, q)
    \/ \E s \in PageStocks : PageImportInventory(s)
    \/ \E b \in Backups : RestoreData(b)
    \/ ResetData
    \/ \E n \in 1..Len(notifications) : MarkNotificationRead(n)
    \/ ClearNotifications

SpecPage == InitPage /\ [][NextPage]_vars

----------------------------------------------------------------------------
(* Requests the server serves at the same time (SpecRequests)              *)
(*                                                                         *)
(* The Inventory collection holds one item, the Usage collection one       *)
(* record of it.  Up to MaxRequests requests arrive; each handler runs     *)
(* from one await to the next in one step, so the steps of two handlers    *)
(* interleave as the event loop lets them.  A handler that answered stays  *)
(* in the list with its status.                                            *)

\* Most requests the server is sent.
MaxRequests == 2
\* The stock of the item and the quantity of its usage record at the start.
FirstStock == 2
FirstQuantity == 1

\* parseInt(req.body.quantity) of the requests: invalid, smaller than the
\* stock, larger than the stock.
RequestQuantities == {0, 1, FirstStock + 1}
\* The ObjectIds the requests name: the item's or the record's, and one no
\* document has.
Ids == [item |-> 1, record |-> 2, none |-> 9]

\* A request at the start of its handler.  date: whether req.body.date casts
\* to a Date; read: the stock of the document findById returned; item: the
\* stock the handler's document holds; status: the answer (0: none yet).
Request(kind, id, quantity, date) ==
    [kind |-> kind, id |-> id, quantity |-> quantity, date |-> date,
     at |-> "findById", read |-> 0, item |-> 0, status |-> 0]

\* res.status(code): the handler is done.
answered(h, code) ==
    /\ handlers' = [handlers EXCEPT ![h].status = code, ![h].at = "done"]
    /\ UNCHANGED <<serverInventory, serverUsage, serverAudit, nextOid, clock>>

\* item.save(): the modified paths are written, currentStock if the handler
\* changed it.
itemSave(collection, sidx, r) ==
    IF r.item # r.read THEN [collection EXCEPT ![sidx].currentStock = r.item]
    ELSE collection

\* Usage.findById: the index of the record, 0 if there is none.
findUsageById(oid) ==
    IF \E u \in 1..Len(serverUsage) : serverUsage[u]._id = oid
    THEN CHOOSE u \in 1..Len(serverUsage) : serverUsage[u]._id = oid
    ELSE 0

\* What the handlers leave alone.
besideRequests ==
    <<inventoryData, usageData, suppliersData, auditLog, storedVars, apiUp,
      now, pc, again, statuses, forecast, recommendations, topUsed, trend,
      supplierVars, pageVars, pushVars>>

InitRequests ==
    /\ inventoryData = <<>>
    /\ usageData = <<>>
    /\ suppliersData = <<>>
    /\ auditLog = <<>>
    /\ storedInventory = <<>>
    /\ storedUsage = <<>>
    /\ storedAudit = <<>>
    /\ serverInventory = <<Item(Ids.item, 0, FirstStock, 1, 0, NoStatus)>>
    /\ serverUsage = <<Usage(Ids.record, 0, Oid(Ids.item), FirstQuantity, 0)>>
    /\ serverAudit = <<>>
    /\ nextOid = Ids.record + 1
    /\ clock = 0
    /\ apiUp = TRUE
    /\ now = 0
    /\ pc = "server"
    /\ again = FALSE
    /\ statuses = <<>>
    /\ forecast = <<>>
    /\ recommendations = <<>>
    /\ topUsed = <<>>
    /\ trend = <<>>
    /\ InitElsewhere

\* A request arrives: POST /api/usage, PATCH /api/inventory/:id/restock or
\* DELETE /api/usage/:id.
Receive(kind, id, quantity, date) ==
    /\ Len(handlers) < MaxRequests
    /\ handlers' = Append(handlers, Request(kind, id, quantity, date))
    /\ UNCHANGED <<serverInventory, serverUsage, serverAudit, nextOid, clock,
                   besideRequests>>

\* POST /api/usage from one await to the next; up: the store answers.
PostUsage(h, up) ==
    LET r    == handlers[h]
        sidx == findById(r.id)
    IN  /\ r.kind = "usage"
        /\ UNCHANGED besideRequests
        /\ \/ /\ r.at # "done" /\ ~up
              /\ answered(h, 400)
           \/ /\ r.at = "findById" /\ up /\ sidx = 0
              /\ answered(h, 404)
           \/ /\ r.at = "findById" /\ up /\ sidx # 0 /\ r.quantity <= 0
              /\ answered(h, 400)
           \/ /\ r.at = "findById" /\ up /\ sidx # 0 /\ r.quantity > 0
              /\ handlers' = [handlers EXCEPT
                    ![h].read = serverInventory[sidx].currentStock,
                    ![h].item = Max(0, serverInventory[sidx].currentStock - r.quantity),
                    ![h].at = "item.save"]
              /\ UNCHANGED <<serverInventory, serverUsage, serverAudit, nextOid, clock>>
           \/ /\ r.at = "item.save" /\ up
              /\ serverInventory' = itemSave(serverInventory, sidx, r)
              /\ handlers' = [handlers EXCEPT ![h].at = "usage.save"]
              /\ UNCHANGED <<serverUsage, serverAudit, nextOid, clock>>
           \/ /\ r.at = "usage.save" /\ up /\ ~r.date
              /\ answered(h, 400)
           \/ /\ r.at = "usage.save" /\ up /\ r.date
              /\ serverUsage' = Append(serverUsage,
                                       Usage(nextOid, 0, Oid(r.id), r.quantity, now))
              /\ nextOid' = nextOid + 1
              /\ handlers' = [handlers EXCEPT ![h].at = "audit.save"]
              /\ UNCHANGED <<serverInventory, serverAudit, clock>>
           \/ /\ r.at = "audit.save" /\ up
              /\ Tick(1)
              /\ serverAudit' = Append(serverAudit, AuditEntry("usage", clock'))
              /\ handlers' = [handlers EXCEPT ![h].status = 201, ![h].at = "done"]
              /\ UNCHANGED <<serverInventory, serverUsage, nextOid>>

\* PATCH /api/inventory/:id/restock from one await to the next.
PatchRestock(h, up) ==
    LET r    == handlers[h]
        sidx == findById(r.id)
    IN  /\ r.kind = "restock"
        /\ UNCHANGED besideRequests
        /\ \/ /\ r.at # "done" /\ ~up
              /\ answered(h, 400)
           \/ /\ r.at = "findById" /\ up /\ sidx = 0
              /\ answered(h, 404)
           \/ /\ r.at = "findById" /\ up /\ sidx # 0 /\ r.quantity <= 0
              /\ answered(h, 400)
           \/ /\ r.at = "findById" /\ up /\ sidx # 0 /\ r.quantity > 0
              /\ handlers' = [handlers EXCEPT
                    ![h].read = serverInventory[sidx].currentStock,
                    ![h].item = serverInventory[sidx].currentStock + r.quantity,
                    ![h].at = "item.save"]
              /\ UNCHANGED <<serverInventory, serverUsage, serverAudit, nextOid, clock>>
           \/ /\ r.at = "item.save" /\ up
              /\ serverInventory' = itemSave(serverInventory, sidx, r)
              /\ handlers' = [handlers EXCEPT ![h].at = "audit.save"]
              /\ UNCHANGED <<serverUsage, serverAudit, nextOid, clock>>
           \/ /\ r.at = "audit.save" /\ up
              /\ Tick(1)
              /\ serverAudit' = Append(serverAudit, AuditEntry("restock", clock'))
              /\ handlers' = [handlers EXCEPT ![h].status = 200, ![h].at = "done"]
              /\ UNCHANGED <<serverInventory, serverUsage, nextOid>>

\* DELETE /api/usage/:id from one await to the next.  The handler keeps the
\* record Usage.findById returned (its quantity and its itemId).
DeleteUsage(h, up) ==
    LET r    == handlers[h]
        uidx == findUsageById(r.id)
        sidx == findById(Ids.item)
    IN  /\ r.kind = "delete"
        /\ UNCHANGED besideRequests
        /\ \/ /\ r.at # "done" /\ ~up
              /\ answered(h, 500)
           \/ /\ r.at = "findById" /\ up /\ uidx = 0
              /\ answered(h, 404)
           \/ /\ r.at = "findById" /\ up /\ uidx # 0
              /\ handlers' = [handlers EXCEPT
                    ![h].quantity = serverUsage[uidx].quantity,
                    ![h].at = "Inventory.findById"]
              /\ UNCHANGED <<serverInventory, serverUsage, serverAudit, nextOid, clock>>
           \/ /\ r.at = "Inventory.findById" /\ up
              /\ handlers' = [handlers EXCEPT
                    ![h].read = serverInventory[sidx].currentStock,
                    ![h].item = serverInventory[sidx].currentStock + r.quantity,
                    ![h].at = "item.save"]
              /\ UNCHANGED <<serverInventory, serverUsage, serverAudit, nextOid, clock>>
           \/ /\ r.at = "item.save" /\ up
              /\ serverInventory' = itemSave(serverInventory, sidx, r)
              /\ handlers' = [handlers EXCEPT ![h].at = "findByIdAndDelete"]
              /\ UNCHANGED <<serverUsage, serverAudit, nextOid, clock>>
           \/ /\ r.at = "findByIdAndDelete" /\ up
              /\ serverUsage' = selectSeq(serverUsage,
                                          {u \in 1..Len(serverUsage) :
                                              serverUsage[u]._id # r.id})
              /\ handlers' = [handlers EXCEPT ![h].status = 200, ![h].at = "done"]
              /\ UNCHANGED <<serverInventory, serverAudit, nextOid, clock>>

NextRequests ==
    \/ \E q \in RequestQuantities, id \in {Ids.item, Ids.none}, d \in BOOLEAN :
          Receive("usage", id, q, d)
    \/ \E q \in RequestQuantities : Receive("restock", Ids.item, q, TRUE)
    \/ \E id \in {Ids.record, Ids.none} : Receive("delete", id, 0, TRUE)
    \/ \E h \in 1..Len(handlers), up \in BOOLEAN : PostUsage(h, up)
    \/ \E h \in 1..Len(handlers), up \in BOOLEAN : PatchRestock(h, up)
    \/ \E h \in 1..Len(handlers), up \in BOOLEAN : DeleteUsage(h, up)

SpecRequests == InitRequests /\ [][NextRequests]_vars

----------------------------------------------------------------------------
(* Push subscriptions (SpecPush)                                           *)
(*                                                                         *)
(* The Subscription collection and the answer of the last POST             *)
(* /api/notifications/send.  The requests are served one after the other.  *)

\* Most endpoints that subscribe.
MaxEndpoints == 2
\* The endpoints of the requests, and the bodies of the subscribe requests:
\* the subscription's keys and the email ("": none given).
Endpoints == 1..MaxEndpoints
SubscribeBodies == {[keys |-> "k1", email |-> ""], [keys |-> "k2", email |-> "a@b"]}
\* What webpush.sendNotification does for a subscription: it resolves, or
\* rejects with the push service's status code.
PushOutcomes == {"sent", "410", "404", "500"}

\* A plausible slip: subscribe always creates a document.
subscribeInsert(collection, endpoint, keys, email) ==
    Append(collection, [endpoint |-> endpoint, keys |-> keys, email |-> email,
                        isActive |-> TRUE])

\* POST /subscribe: the document of the endpoint gets the keys, the email if
\* one is given, and isActive = true; without one a new document is saved.
subscribe(collection, endpoint, keys, email) ==
    IF \E s \in 1..Len(collection) : collection[s].endpoint = endpoint
    THEN [s \in 1..Len(collection) |->
             IF collection[s].endpoint = endpoint
             THEN [collection[s] EXCEPT
                      !.keys = keys,
                      !.email = IF email # "" THEN email ELSE @,
                      !.isActive = TRUE]
             ELSE collection[s]]
    ELSE Append(collection, [endpoint |-> endpoint, keys |-> keys,
                             email |-> email, isActive |-> TRUE])

\* Subscription.findOneAndUpdate({ endpoint }, { isActive: false }) for each
\* of the endpoints.
deactivate(collection, endpoints) ==
    [s \in 1..Len(collection) |->
        IF collection[s].endpoint \in endpoints
        THEN [collection[s] EXCEPT !.isActive = FALSE]
        ELSE collection[s]]

\* Subscription.find({ isActive: true }): the endpoints of the documents.
activeEndpoints(collection) ==
    {collection[s].endpoint : s \in {t \in 1..Len(collection) : collection[t].isActive}}

\* What the requests for push notifications leave alone.
besidePush ==
    <<inventoryData, usageData, suppliersData, auditLog, storedVars, serverVars,
      clock, apiUp, now, again, statuses, forecast, recommendations, topUsed,
      trend, supplierVars, pageVars, handlers>>

InitPush ==
    /\ inventoryData = <<>>
    /\ usageData = <<>>
    /\ suppliersData = <<>>
    /\ auditLog = <<>>
    /\ storedInventory = <<>>
    /\ storedUsage = <<>>
    /\ storedAudit = <<>>
    /\ serverInventory = <<>>
    /\ serverUsage = <<>>
    /\ serverAudit = <<>>
    /\ nextOid = 1
    /\ clock = 0
    /\ apiUp = TRUE
    /\ now = 0
    /\ pc = "server"
    /\ again = FALSE
    /\ statuses = <<>>
    /\ forecast = <<>>
    /\ recommendations = <<>>
    /\ topUsed = <<>>
    /\ trend = <<>>
    /\ InitElsewhere

\* POST /api/notifications/subscribe with an endpoint and keys, answered 201.
Subscribe(endpoint, keys, email) ==
    /\ subscriptions' = subscribe(subscriptions, endpoint, keys, email)
    /\ pc' = "subscribe"
    /\ UNCHANGED <<report, besidePush>>

\* POST /api/notifications/unsubscribe with an endpoint.
Unsubscribe(endpoint) ==
    /\ subscriptions' = deactivate(subscriptions, {endpoint})
    /\ pc' = "unsubscribe"
    /\ UNCHANGED <<report, besidePush>>

\* POST /api/notifications/send with a title and a body: sendNotification is
\* called for every active subscription, a subscription whose push service
\* answers 410 or 404 is deactivated, and the counts are answered.
Send(outcome) ==
    LET active == activeEndpoints(subscriptions)
    IN  /\ subscriptions' =
              deactivate(subscriptions,
                         {e \in active : outcome[e] \in {"410", "404"}})
        /\ report' = [successful |-> Cardinality({e \in active : outcome[e] = "sent"}),
                      failed     |-> Cardinality({e \in active : outcome[e] # "sent"}),
                      total      |-> Cardinality(active),
                      sent       |-> active]
        /\ pc' = "send"
        /\ UNCHANGED besidePush

NextPush ==
    \/ \E e \in Endpoints, b \in SubscribeBodies : Subscribe(e, b.keys, b.email)
    \/ \E e \in Endpoints : Unsubscribe(e)
    \/ \E o \in [activeEndpoints(subscriptions) -> PushOutcomes] : Send(o)

SpecPush == InitPush /\ [][NextPush]_vars

----------------------------------------------------------------------------
(* Properties of the derived views (SpecEngine) *)

Items == 1..Len(inventoryData)
Rows  == 1..Len(forecast)
Cards == 1..Len(recommendations)

\* The item has no stored status field and satisfies the data model.
Classifiable(item) ==
    item.status = NoStatus /\ item.currentStock >= 0 /\ item.reorderLevel >= 1

\* C1: for every item with currentStock >= 0, reorderLevel >= 1 and no stored
\* status, the classifier returns exactly one of the three statuses: Out of
\* Stock iff currentStock = 0, otherwise Low iff currentStock <= reorderLevel,
\* otherwise Healthy; getItemStatus and the server's virtual agree.
C1_StatusClassifier ==
    pc = "dashboard" =>
        \A i \in Items :
            LET item == inventoryData[i]
                st   == statuses[i].client
            IN  Classifiable(item) =>
                    /\ st \in Statuses
                    /\ (st = OutOfStock) <=> (item.currentStock = 0)
                    /\ (st = Low) <=> (item.currentStock # 0
                                         /\ item.currentStock <= item.reorderLevel)
                    /\ (st = Healthy) <=> (item.currentStock > item.reorderLevel)
                    /\ statuses[i].server = st

\* An item at the boundary currentStock = reorderLevel was classified Low, and
\* an item with no stock Out of Stock, by both classifiers.
C1_Witness ==
    /\ pc = "dashboard"
    /\ \E i \in Items :
        /\ Classifiable(inventoryData[i])
        /\ inventoryData[i].currentStock = inventoryData[i].reorderLevel
        /\ statuses[i] = [client |-> Low, server |-> Low]

\* C3: getDaysUntilStockout is Infinity for every item with dailyUsage <= 0
\* and floor(currentStock / dailyUsage) for dailyUsage > 0: the integer d with
\* d * dailyUsage <= currentStock < (d + 1) * dailyUsage; Infinity differs
\* from every finite result.
C3_DaysUntilStockout ==
    pc = "forecast" =>
        \A r \in Rows :
            LET item == forecast[r].item
                d    == forecast[r].days
            IN  /\ item.dailyUsage <= 0 => d.inf
                /\ item.dailyUsage > 0 =>
                      /\ ~d.inf
                      /\ d.n * item.dailyUsage <= item.currentStock * UsageDen
                      /\ item.currentStock * UsageDen < (d.n + 1) * item.dailyUsage
                /\ \A q \in Rows : (d.inf /\ ~forecast[q].days.inf) =>
                                      d # forecast[q].days

\* A row whose quotient has the fraction 1/2 (floor and round differ), a row
\* with dailyUsage = 0 and a row with dailyUsage < 0.
C3_Witness ==
    /\ pc = "forecast"
    /\ \E r \in Rows :
        /\ forecast[r].item.dailyUsage > 0
        /\ 2 * ((forecast[r].item.currentStock * UsageDen) % forecast[r].item.dailyUsage)
              = forecast[r].item.dailyUsage
    /\ \E r \in Rows : forecast[r].item.dailyUsage = 0 /\ forecast[r].days.inf
    /\ \E r \in Rows : forecast[r].item.dailyUsage < 0 /\ forecast[r].days.inf

\* days of row a is greater than days of row b.
DaysGreater(a, b) ==
    \/ a.days.inf /\ ~b.days.inf
    \/ ~a.days.inf /\ ~b.days.inf /\ a.days.n > b.days.n

\* C4: the forecast table has exactly one row per inventory item and is in
\* ascending order of days, every Infinity row after every finite row.
C4_ForecastOrder ==
    pc = "forecast" =>
        /\ Len(forecast) = Len(inventoryData)
        /\ \A i \in Items :
              Cardinality({r \in Rows : forecast[r].item = inventoryData[i]}) = 1
        /\ \A r, q \in Rows : r < q => ~DaysGreater(forecast[r], forecast[q])
        /\ \A r, q \in Rows :
              (forecast[r].days.inf /\ ~forecast[q].days.inf) => q < r

\* Three items, Infinity, finite, Infinity in the inventory's order: the table
\* has the finite row first and the two Infinity rows after it.
C4_Witness ==
    /\ pc = "forecast"
    /\ Len(inventoryData) = 3
    /\ getDaysUntilStockout(inventoryData[1]).inf
    /\ ~getDaysUntilStockout(inventoryData[2]).inf
    /\ getDaysUntilStockout(inventoryData[3]).inf
    /\ forecast[1].item = inventoryData[2]
    /\ forecast[2].days.inf /\ forecast[3].days.inf

\* C5: a row's priority is high iff days <= 7, medium iff 7 < days <= 14 and
\* low otherwise; an Infinity row is low.
C5_ForecastPriority ==
    pc = "forecast" =>
        \A r \in Rows :
            LET d == forecast[r].days
                p == forecast[r].priority
            IN  /\ p \in {"high", "medium", "low"}
                /\ (p = "high") <=> (~d.inf /\ d.n <= 7)
                /\ (p = "medium") <=> (~d.inf /\ 7 < d.n /\ d.n <= 14)
                /\ (p = "low") <=> (d.inf \/ d.n > 14)
                /\ d.inf => p = "low"

\* Rows at the boundaries: 7 days is high, 8 days is medium, Infinity is low.
C5_Witness ==
    /\ pc = "forecast"
    /\ \E r \in Rows : forecast[r].days = Fin(7) /\ forecast[r].priority = "high"
    /\ \E r \in Rows : forecast[r].days = Fin(8) /\ forecast[r].priority = "medium"
    /\ \E r \in Rows : forecast[r].days.inf /\ forecast[r].priority = "low"

\* Rows at the upper boundary: 14 days is medium, 15 days is low.
C5_WitnessUpper ==
    /\ pc = "forecast"
    /\ \E r \in Rows : forecast[r].days = Fin(14) /\ forecast[r].priority = "medium"
    /\ \E r \in Rows : forecast[r].days = Fin(15) /\ forecast[r].priority = "low"

\* The rules' conditions on the snapshot, stated on the items.
Rule1Matches == \E i \in Items : statuses[i].client = OutOfStock
Rule2Matches ==
    \E i \in Items :
        /\ ~getDaysUntilStockout(inventoryData[i]).inf
        /\ getDaysUntilStockout(inventoryData[i]).n <= 7
        /\ statuses[i].client # OutOfStock
Rule3Matches == \E i \in Items : inventoryData[i].dailyUsage > 5 * UsageDen
Rule4Matches ==
    \E i \in Items :
        /\ ~getDaysUntilStockout(inventoryData[i]).inf
        /\ getDaysUntilStockout(inventoryData[i]).n > 90
        /\ inventoryData[i].currentStock > 3 * inventoryData[i].reorderLevel
Rule5Matches ==
    /\ Len(inventoryData) > 0
    /\ ~(Rule1Matches \/ Rule2Matches \/ Rule3Matches \/ Rule4Matches)
Rule6Matches == Len(inventoryData) > 0 /\ Len(suppliersData) = 0

\* The priorities of the rules that matched.
MatchedRules ==
    {p \in 1..6 : \/ p = 1 /\ Rule1Matches
                  \/ p = 2 /\ Rule2Matches
                  \/ p = 3 /\ Rule3Matches
                  \/ p = 4 /\ Rule4Matches
                  \/ p = 5 /\ Rule5Matches
                  \/ p = 6 /\ Rule6Matches}

Returned == {recommendations[c].priority : c \in Cards}

\* C6: generateRecommendations returns at most 3 cards, the first 3 (or fewer)
\* of the matched rules in ascending priority: the priorities are strictly
\* increasing and no matched rule with a smaller priority than a returned card
\* is left out.
C6_TopThreeByPriority ==
    pc = "dashboard" =>
        /\ Len(recommendations) <= 3
        /\ Len(recommendations) = Min(3, Cardinality(MatchedRules))
        /\ Returned \subseteq MatchedRules
        /\ \A c, d \in Cards :
              c < d => recommendations[c].priority < recommendations[d].priority
        /\ \A p \in MatchedRules : \A q \in Returned : p < q => p \in Returned

\* More than three rules matched, excess stock (pushed before high
\* consumption) among them, and three cards were returned.
C6_Witness ==
    /\ pc = "dashboard"
    /\ Cardinality(MatchedRules) > 3
    /\ {3, 4} \subseteq MatchedRules
    /\ Len(recommendations) = 3

\* C7 as stated: the all-healthy card is never returned when any other rule
\* matched.
C7_Original ==
    pc = "dashboard" => ~(5 \in Returned /\ MatchedRules \ {5} # {})

\* C7 as amended: the all-healthy card is never returned when any of the
\* rules 1 to 4 (out of stock, low within a week, high consumption, excess
\* stock) matched.
C7_HealthyOnlyWithoutWarnings ==
    pc = "dashboard" => ~(5 \in Returned /\ MatchedRules \cap 1..4 # {})

\* One of the rules 1 to 4 matched, fewer than three cards were returned, and
\* the all-healthy card is not among them.
C7_Witness ==
    /\ pc = "dashboard"
    /\ MatchedRules \cap 1..4 # {}
    /\ Len(recommendations) < 3
    /\ 5 \notin Returned

\* C8: rule 2 matches iff some item has finite days <= 7 and is not Out of
\* Stock; its card counts exactly those items, so an Out of Stock item is
\* never counted by rule 2 and no item is counted by both rule 1 and rule 2.
C8_LowWithinAWeek ==
    pc = "dashboard" =>
        LET week == {i \in Items :
                        /\ ~getDaysUntilStockout(inventoryData[i]).inf
                        /\ getDaysUntilStockout(inventoryData[i]).n <= 7
                        /\ statuses[i].client # OutOfStock}
            out  == {i \in Items : statuses[i].client = OutOfStock}
        IN  /\ (2 \in Returned) <=> (week # {})
            /\ \A c \in Cards :
                  /\ recommendations[c].priority = 2 =>
                        recommendations[c].count = Cardinality(week)
                  /\ recommendations[c].priority = 1 =>
                        recommendations[c].count = Cardinality(out)
            /\ week \cap out = {}

\* An Out of Stock item with zero days left (dailyUsage > 0) beside an item
\* that runs out within the week: rule 2 counted one item, not two.
C8_Witness ==
    /\ pc = "dashboard"
    /\ \E i \in Items :
        /\ statuses[i].client = OutOfStock
        /\ getDaysUntilStockout(inventoryData[i]) = Fin(0)
    /\ \E c \in Cards :
        recommendations[c].priority = 2 /\ recommendations[c].count = 1

\* C9: when some item is Out of Stock the first card is the out-of-stock
\* alert (priority 1, warning, with the reorder action); when no item is, that
\* card is not returned.
C9_OutOfStockFirst ==
    pc = "dashboard" =>
        /\ (\E i \in Items : statuses[i].client = OutOfStock) =>
              /\ Len(recommendations) >= 1
              /\ recommendations[1].priority = 1
              /\ recommendations[1].type = "warning"
              /\ recommendations[1].title = "Urgent: Items Out of Stock"
              /\ recommendations[1].action = "generateOrderRequest"
        /\ (\A i \in Items : statuses[i].client # OutOfStock) => 1 \notin Returned

\* An item with stock 0 and no stored status, with other rules matching too:
\* the alert is first of three cards.
C9_Witness ==
    /\ pc = "dashboard"
    /\ \E i \in Items : Classifiable(inventoryData[i])
                          /\ inventoryData[i].currentStock = 0
    /\ Len(recommendations) = 3
    /\ recommendations[1].priority = 1

\* The case of C10: items, no suppliers, none of the rules 1 to 4.
HealthyWithoutSuppliers ==
    /\ pc = "dashboard"
    /\ Len(inventoryData) > 0
    /\ Len(suppliersData) = 0
    /\ ~(Rule1Matches \/ Rule2Matches \/ Rule3Matches \/ Rule4Matches)

\* C10 as stated: in that case only the all-healthy card is emitted and the
\* add-suppliers card is not.
C10_Original ==
    HealthyWithoutSuppliers => (Returned = {5} /\ 6 \notin Returned)

\* C10 as amended: in that case exactly two cards are emitted, the all-healthy
\* card and after it the add-suppliers card.
C10_HealthyThenSuppliers ==
    HealthyWithoutSuppliers =>
        /\ Len(recommendations) = 2
        /\ recommendations[1].priority = 5
        /\ recommendations[1].title = "Inventory Health: Excellent"
        /\ recommendations[2].priority = 6
        /\ recommendations[2].title = "Add Suppliers"

\* The case happens: two cards were returned for a healthy inventory without
\* suppliers.
C10_Witness ==
    HealthyWithoutSuppliers /\ Len(recommendations) = 2

\* The collections the derived views read are as they were.
SnapshotUnchanged ==
    /\ inventoryData' = inventoryData
    /\ usageData' = usageData
    /\ suppliersData' = suppliersData

LeqDays(a, b) == b.inf \/ (~a.inf /\ a.n <= b.n)

\* C15: with currentStock held fixed, the days until stockout do not increase
\* when dailyUsage increases: for two items of the same stock with 0 < u1 <=
\* u2, days(u2) <= days(u1); and every result is <= the Infinity returned for
\* dailyUsage = 0.
C15_DaysMonotonic ==
    pc = "forecast" =>
        \A r, q \in Rows :
            LET a == forecast[r].item
                b == forecast[q].item
            IN  /\ (a.currentStock = b.currentStock /\ a.dailyUsage > 0
                      /\ a.dailyUsage <= b.dailyUsage)
                      => LeqDays(forecast[q].days, forecast[r].days)
                /\ a.dailyUsage = 0 =>
                      /\ forecast[r].days.inf
                      /\ LeqDays(forecast[q].days, forecast[r].days)

\* Three items of the same stock, with dailyUsage 0, u1 > 0 and u2 > u1: the
\* days of the third are fewer than those of the second, which are finite.
C15_Witness ==
    /\ pc = "forecast"
    /\ \E r, q, z \in Rows :
        /\ forecast[r].item.currentStock = forecast[q].item.currentStock
        /\ forecast[r].item.currentStock = forecast[z].item.currentStock
        /\ forecast[z].item.dailyUsage = 0
        /\ 0 < forecast[r].item.dailyUsage
        /\ forecast[r].item.dailyUsage < forecast[q].item.dailyUsage
        /\ ~forecast[r].days.inf
        /\ forecast[q].days.n < forecast[r].days.n

\* The items the excess-stock rule is about, stated on stock and usage:
\* dailyUsage > 0 and currentStock / dailyUsage >= 91 (finite days > 90), and
\* currentStock > 3 * reorderLevel.
ExcessItems ==
    {i \in Items :
        /\ inventoryData[i].dailyUsage > 0
        /\ inventoryData[i].currentStock * UsageDen
              >= 91 * inventoryData[i].dailyUsage
        /\ inventoryData[i].currentStock > 3 * inventoryData[i].reorderLevel}

\* C16: the excess-stock card (priority 4, type info) is among the matched
\* cards iff some item has finite days > 90 and currentStock > 3 *
\* reorderLevel, and it counts those items; an item with dailyUsage = 0 is
\* never one of them, so an inventory of such items never matches the rule.
C16_ExcessStockRule ==
    pc = "dashboard" =>
        LET matched == matchedCards(inventoryData, suppliersData)
            excess  == {c \in 1..Len(matched) : matched[c].priority = 4}
        IN  /\ (excess # {}) <=> (ExcessItems # {})
            /\ Cardinality(excess) <= 1
            /\ \A c \in excess :
                  /\ matched[c].type = "info"
                  /\ matched[c].count = Cardinality(ExcessItems)
            /\ 4 \in Returned => ExcessItems # {}
            /\ (\A i \in Items : inventoryData[i].dailyUsage = 0) =>
                  (excess = {} /\ 4 \notin Returned)

\* Two items with 91 units and a reorder level of 8, one used 1 a day (91
\* days), one not used at all (Infinity): the card was returned and counts one.
C16_Witness ==
    /\ pc = "dashboard"
    /\ \E i, j \in Items :
        /\ inventoryData[i].currentStock = 91 /\ inventoryData[j].currentStock = 91
        /\ inventoryData[i].dailyUsage = UsageDen /\ inventoryData[j].dailyUsage = 0
    /\ \E c \in Cards :
        recommendations[c].priority = 4 /\ recommendations[c].count = 1

\* C17: for every row with finite days the suggested order date is today plus
\* max(0, days - 7) days: never before today, and today when days <= 7; for a
\* row with days = Infinity the table shows N/A.
C17_SuggestedOrderDate ==
    pc = "forecast" =>
        \A r \in Rows :
            LET d     == forecast[r].days
                cells == forecastCells(forecast[r])
            IN  /\ ~d.inf =>
                      /\ forecast[r].orderDate.n >= 0
                      /\ d.n <= 7 => forecast[r].orderDate.n = 0
                      /\ d.n > 7 => forecast[r].orderDate.n = d.n - 7
                      /\ cells.orderDate = ToString(forecast[r].orderDate.n)
                      /\ cells.days = ToString(d.n)
                /\ d.inf => (cells.orderDate = "N/A" /\ cells.days = "N/A")

\* Rows with 2 days left (order today), 14 days left (order in 7 days) and
\* Infinity (N/A).
C17_Witness ==
    /\ pc = "forecast"
    /\ \E r \in Rows : forecast[r].days = Fin(2) /\ forecastCells(forecast[r]).orderDate = "0"
    /\ \E r \in Rows : forecast[r].days = Fin(14) /\ forecastCells(forecast[r]).orderDate = "7"
    /\ \E r \in Rows : forecast[r].days.inf /\ forecastCells(forecast[r]).orderDate = "N/A"

Records == 1..Len(usageData)
Tops    == 1..Len(topUsed)

\* The sum of quantity over the records with the indices S.
RECURSIVE QuantityOf(_)
QuantityOf(S) ==
    IF S = {} THEN 0
    ELSE LET k == CHOOSE k \in S : TRUE
         IN  usageData[k].quantity + QuantityOf(S \ {k})

\* The itemIds that occur in the usage records, and the total of one.
UsedIds == {usageData[k].itemId : k \in Records}
TotalOf(id) == QuantityOf({k \in Records : usageData[k].itemId = id})

\* C18: the top-used list has at most 5 entries, one per distinct itemId of
\* the usage records; an entry's usage is the sum of quantity over the records
\* of its itemId; the entries are in descending order of usage and no itemId
\* left out has a larger total than one that is listed; an itemId without an
\* item in the inventory is listed with the name Unknown.
C18_TopUsedItems ==
    pc = "dashboard" =>
        /\ Len(topUsed) <= 5
        /\ Len(topUsed) = Min(5, Cardinality(UsedIds))
        /\ \A t \in Tops :
              /\ topUsed[t].id \in UsedIds
              /\ topUsed[t].usage = TotalOf(topUsed[t].id)
              /\ \A v \in Tops : topUsed[v].id = topUsed[t].id => v = t
              /\ topUsed[t].name.unknown <=>
                    (\A i \in Items : inventoryData[i]._id # topUsed[t].id.v)
              /\ ~topUsed[t].name.unknown =>
                    inventoryData[topUsed[t].name.item]._id = topUsed[t].id.v
        /\ \A t, v \in Tops : t < v => topUsed[t].usage >= topUsed[v].usage
        /\ \A id \in UsedIds \ {topUsed[t].id : t \in Tops} :
              \A t \in Tops : TotalOf(id) <= topUsed[t].usage

\* More than five itemIds with different totals, most of them without an
\* item: five entries, an Unknown one among them, and an itemId left out.
C18_Witness ==
    /\ pc = "dashboard"
    /\ Cardinality(UsedIds) > 5
    /\ Len(topUsed) = 5
    /\ topUsed[1].usage > topUsed[5].usage
    /\ \E t \in Tops : topUsed[t].name.unknown
    /\ \E t \in Tops : ~topUsed[t].name.unknown
    /\ \E id \in UsedIds : TotalOf(id) < topUsed[5].usage

\* The instant t falls on the day d.
OnDay(t, d) == d * DayTicks <= t /\ t < (d + 1) * DayTicks

\* The day of now.
Today == CHOOSE d \in -1..1 : OnDay(now, d)

\* C19: the usage trend has exactly 7 values, for the days today - 6, ...,
\* today in this order; each is the sum of quantity of the records dated on
\* its day, 0 for a day without records; a record dated outside the window
\* adds to none of them.
C19_UsageTrend ==
    pc = "trend" =>
        /\ Len(trend) = 7
        /\ \A k \in 1..7 :
              trend[k] = QuantityOf({r \in Records :
                                        OnDay(usageData[r].date, Today - (7 - k))})
        /\ \A k \in 1..7 :
              (\A r \in Records : ~OnDay(usageData[r].date, Today - (7 - k)))
                  => trend[k] = 0
        /\ QuantityOf({r \in Records :
                          \E k \in 1..7 : OnDay(usageData[r].date, Today - (7 - k))})
              = trend[1] + trend[2] + trend[3] + trend[4] + trend[5] + trend[6]
                  + trend[7]

\* Read at a later instant of today: a record of today, a record of the first
\* day of the window and a record of 7 days ago, which is in no bucket.
C19_Witness ==
    /\ pc = "trend"
    /\ now = DayTicks - 1
    /\ \E r \in Records : usageData[r].date = 0
    /\ \E r \in Records : usageData[r].date = -(TrendDays - 1) * DayTicks
    /\ \E r \in Records : usageData[r].date = -TrendDays * DayTicks
    /\ trend[1] > 0 /\ trend[7] > 0
    /\ trend[1] + trend[7] < QuantityOf(Records)

\* C28: whenever the all-healthy card ("Inventory Health: Excellent", all
\* stock levels are healthy) is among the cards generateRecommendations
\* returned, no item of the inventory has the status Low or Out of Stock.
C28_HealthyCardMeansHealthy ==
    pc = "dashboard" =>
        (5 \in Returned =>
            \A i \in Items : statuses[i].client \notin {Low, OutOfStock})

----------------------------------------------------------------------------
(* Properties of the client and the server (Spec) *)

\* The status the data model derives from an item's stock and reorder level.
Classification(item) ==
    IF item.currentStock = 0 THEN OutOfStock
    ELSE IF item.currentStock <= item.reorderLevel THEN Low
    ELSE Healthy

\* C2: status is derived, not stored: after any sequence of client operations
\* (load, add, edit, record usage, restock, through the API or through the
\* local fallback) the status getItemStatus reports for every item of
\* inventoryData is the classification of its current stock and reorder level.
\* (Stated for the items that satisfy the data model, currentStock >= 0 and
\* reorderLevel >= 1.)
C2_StatusDerived ==
    \A i \in Items :
        (inventoryData[i].currentStock >= 0 /\ inventoryData[i].reorderLevel >= 1)
            => getItemStatus(inventoryData[i]) = Classification(inventoryData[i])

\* C11: in every reachable state every document of the server's Inventory
\* collection and every item of the client's inventoryData has currentStock
\* >= 0 and reorderLevel >= 1.
C11_StockInvariant ==
    /\ \A i \in 1..Len(serverInventory) :
          serverInventory[i].currentStock >= 0 /\ serverInventory[i].reorderLevel >= 1
    /\ \A i \in Items :
          inventoryData[i].currentStock >= 0 /\ inventoryData[i].reorderLevel >= 1

\* The server's half of C11: every document has currentStock >= 0 and
\* reorderLevel >= 1.
ServerStockInvariant ==
    \A i \in 1..Len(serverInventory) :
        serverInventory[i].currentStock >= 0 /\ serverInventory[i].reorderLevel >= 1

\* C12: a request that deletes a usage record (the Usage collection loses a
\* record and no item is deleted with it) deletes exactly that record; if the
\* item the record refers to is in the Inventory collection its currentStock
\* has increased by the record's quantity and nothing else of it changed; no
\* other item changed, and if the item is gone no item changed at all.
C12_DeleteUsageRestoresStock ==
    [][(Len(serverUsage') < Len(serverUsage) /\ serverAudit' = serverAudit) =>
          \E u \in 1..Len(serverUsage) :
              /\ serverUsage' = selectSeq(serverUsage, 1..Len(serverUsage) \ {u})
              /\ \A r \in 1..Len(serverUsage') :
                    serverUsage'[r]._id # serverUsage[u]._id
              /\ Len(serverInventory') = Len(serverInventory)
              /\ \A i \in 1..Len(serverInventory) :
                    IF serverInventory[i]._id = serverUsage[u].itemId.v
                    THEN serverInventory'[i] =
                            [serverInventory[i] EXCEPT
                                !.currentStock = @ + serverUsage[u].quantity]
                    ELSE serverInventory'[i] = serverInventory[i]]_vars

\* The only requests logged were the creation of one item and a usage, the
\* usage record is gone and the item is back at the stock it was created with.
C12_Witness ==
    /\ Len(serverInventory) = 1
    /\ Len(serverAudit) = 2
    /\ serverAudit[1].action = "add" /\ serverAudit[2].action = "usage"
    /\ serverUsage = <<>>
    /\ serverInventory[1].currentStock = MaxStock

\* The usage record of a deleted item was deleted: the item's deletion and the
\* usage were logged, the item's record outlived it and is gone now.
C12_WitnessItemGone ==
    /\ serverInventory = <<>>
    /\ serverUsage = <<>>
    /\ \E e \in Range(serverAudit) : e.action = "usage"
    /\ \E e \in Range(serverAudit) : e.action = "delete"
    /\ \E e \in Range(storedAudit) : e.action = "delete"
    /\ apiUp

\* C13: the client's audit log holds at most 500 entries, the most recent
\* ones: whenever adding an entry makes the log drop one, no entry it keeps is
\* older than the one it dropped.
C13_AuditCapMostRecent ==
    [][/\ Len(auditLog') <= AuditCap
       /\ clock' # clock =>
             \A d \in Range(auditLog) \ Range(auditLog') :
                 \A r \in Range(auditLog') : r.timestamp >= d.timestamp]_vars

\* C20: every request that changes the Inventory or the Usage collection adds
\* an entry to the AuditLog collection.
C20_AuditAllChanges ==
    [][(serverInventory' # serverInventory \/ serverUsage' # serverUsage)
          => Len(serverAudit') > Len(serverAudit)]_vars

\* C26: recording a usage and then deleting that usage record is a round trip
\* on stock: whenever a request adds a usage record, deleting that record
\* right after it (DELETE /api/usage/:id, restoreStock) gives the Inventory
\* collection back as it was before the usage was recorded, also when the
\* quantity was larger than the stock.
C26_UsageRoundTrip ==
    [][Len(serverUsage') = Len(serverUsage) + 1
          => restoreStock(serverUsage[Len(serverUsage)])' = serverInventory]_vars

\* The catch block of a client operation ran although the API was reachable:
\* the server answered with a status that is not ok and changed nothing, the
\* client made a local audit entry.
Rejected == apiUp /\ apiUp' /\ serverVars' = serverVars /\ clock' # clock

\* A client operation was answered ok: the Inventory collection and the
\* client's inventory changed in one step.
Answered ==
    /\ apiUp /\ apiUp'
    /\ serverInventory' # serverInventory
    /\ inventoryData' # inventoryData

\* C27: the client's copy follows the server: after an add, edit, delete,
\* record-usage or restock that was answered ok, every item of inventoryData
\* the operation added or changed equals the server's document, serialised;
\* and when the server answered with a status that is not ok, inventoryData
\* and usageData are as they were.
C27_ClientFollowsServer ==
    [][/\ Answered =>
             \A i \in 1..Len(inventoryData') :
                 (i > Len(inventoryData) \/ inventoryData'[i] \notin Range(inventoryData))
                     => \E d \in 1..Len(serverInventory') :
                            inventoryData'[i] = toJSON(serverInventory'[d])
       /\ Rejected => (inventoryData' = inventoryData /\ usageData' = usageData)]_vars

\* The first half of C27 alone: what an operation answered ok leaves in the
\* client is the server's document.
ClientFollowsOkAnswers ==
    [][Answered =>
          \A i \in 1..Len(inventoryData') :
              (i > Len(inventoryData) \/ inventoryData'[i] \notin Range(inventoryData))
                  => \E d \in 1..Len(serverInventory') :
                         inventoryData'[i] = toJSON(serverInventory'[d])]_vars

----------------------------------------------------------------------------
(* Properties of the supplier collection (SpecSuppliers) *)

\* The ObjectIds of the suppliers the client holds.
KnownSuppliers == {suppliersData[k]._id : k \in 1..Len(suppliersData)} \ {0}

\* Every row of the inventory table has a supplier cell: the supplier the
\* item refers to if suppliersData has it, and '-' if it has not.
TableShowsSuppliers ==
    /\ Len(inventoryTable) = Len(inventoryData)
    /\ \A i \in Items :
          LET ref == supplierIdOf(inventoryData[i])
          IN  IF ref.kind = "oid" /\ ref.v \in KnownSuppliers
              THEN inventoryTable[i] = [dash |-> FALSE, supplier |-> ref.v]
              ELSE inventoryTable[i] = Dash

\* C21: a step that deletes a supplier (from the Supplier collection or from
\* suppliersData) leaves the Inventory collection and inventoryData as they
\* were, the supplierId of the items that refer to the supplier included; and
\* whenever the inventory table is rendered every item has a row, with '-'
\* for the supplier if the item's supplier is not there.
C21_SupplierDeleteKeepsItems ==
    [][/\ (Len(serverSuppliers') < Len(serverSuppliers)
             \/ Len(suppliersData') < Len(suppliersData))
          => (serverInventory' = serverInventory /\ inventoryData' = inventoryData)
       /\ pc' = "table" => TableShowsSuppliers']_vars

\* A supplier was deleted through the API, an item still refers to it on the
\* server and in the client, and the table shows the item's row with '-'
\* for the supplier.
C21_Witness ==
    /\ pc = "table"
    /\ \E e \in Range(serverAudit) : e.action = "delete"
    /\ \E i \in Items :
          /\ supplierIdOf(inventoryData[i]).v \in 1..MaxSupplierDocs
          /\ supplierIdOf(inventoryData[i]).v \notin KnownSuppliers
          /\ serverInventory[i].supplierId = supplierIdOf(inventoryData[i])
          /\ \A k \in 1..Len(serverSuppliers) :
                serverSuppliers[k]._id # serverInventory[i].supplierId.v
          /\ inventoryTable[i] = Dash

----------------------------------------------------------------------------
(* Properties of the inventory tab and the notifications (SpecPage) *)

\* C22: whatever the handlers did to inventoryData, getFilteredInventory
\* returns the list that filtering and sorting the current inventoryData
\* with the current settings gives; the memo is never returned for an
\* inventory with other contents.
C22_MemoIsOnlyAnOptimisation ==
    getFilteredInventory(filterCache, inventoryData, filters).result
        = filterAndSort(inventoryData, filters)

\* The unread notifications of an item id.
UnreadOf(itemId) ==
    {n \in 1..Len(notifications) :
        notifications[n].itemId = itemId /\ ~notifications[n].read}

\* C29: at most one unread notification per item, distinct notification
\* ids, and right after checkLowStockAlerts exactly one unread notification
\* for every item that is not Healthy.
C29_OneUnreadPerItem ==
    /\ \A n \in 1..Len(notifications) : Cardinality(UnreadOf(notifications[n].itemId)) <= 1
    /\ \A m, n \in 1..Len(notifications) :
          notifications[m].id = notifications[n].id => m = n
    /\ pc = "alerts" =>
          \A i \in 1..Len(inventoryData) :
              getItemStatus(inventoryData[i]) # Healthy
                  => Cardinality(UnreadOf(getItemId(inventoryData[i]))) = 1

----------------------------------------------------------------------------
(* Properties of the requests served together (SpecRequests) *)

TheStock == serverInventory[1].currentStock
Done(h) == handlers[h].at = "done"

\* C23: a POST /api/usage that is the only request and answers an error
\* status leaves the item's stock, the Usage collection and the audit log as
\* they were; one that answers 201 leaves the stock at max(0, old stock -
\* quantity), one more usage record and one 'usage' audit entry.
C23_UsageAllOrNothing ==
    (Len(handlers) = 1 /\ handlers[1].kind = "usage" /\ Done(1)) =>
        IF handlers[1].status = 201
        THEN /\ TheStock = Max(0, FirstStock - handlers[1].quantity)
             /\ Len(serverUsage) = 2
             /\ serverUsage[2].quantity = handlers[1].quantity
             /\ serverUsage[2].itemId = Oid(Ids.item)
             /\ Len(serverAudit) = 1 /\ serverAudit[1].action = "usage"
        ELSE /\ TheStock = FirstStock
             /\ Len(serverUsage) = 1
             /\ serverAudit = <<>>

\* The stock after the request r is served alone on the stock s.
Served(r, s) ==
    IF r.kind = "usage" THEN Max(0, s - r.quantity) ELSE s + r.quantity

\* C24: two usage requests, or a usage and a restock request, for the item
\* that both succeeded leave the stock one of the two serial orders gives.
C24_NoLostUpdate ==
    (/\ Len(handlers) = 2
     /\ \A h \in 1..2 : Done(h) /\ handlers[h].status \in {200, 201}
     /\ \E h \in 1..2 : handlers[h].kind = "usage"
     /\ \A h \in 1..2 : handlers[h].kind \in {"usage", "restock"})
        => TheStock \in {Served(handlers[2], Served(handlers[1], FirstStock)),
                         Served(handlers[1], Served(handlers[2], FirstStock))}

\* C25: two DELETE /api/usage/:id requests for the record, both answered,
\* leave the item's stock larger by the record's quantity, once.
C25_RestoredOnce ==
    (/\ Len(handlers) = 2
     /\ \A h \in 1..2 : /\ Done(h) /\ handlers[h].kind = "delete"
                        /\ handlers[h].id = Ids.record
                        /\ handlers[h].status \in {200, 404})
        => TheStock = FirstStock + FirstQuantity

----------------------------------------------------------------------------
(* Properties of the push subscriptions (SpecPush) *)

\* The documents of an endpoint.
DocsOf(e) == {s \in 1..Len(subscriptions) : subscriptions[s].endpoint = e}
\* The endpoint has one document, and it is active (or not).
StoredAs(e, active) ==
    /\ Cardinality(DocsOf(e)) = 1
    /\ \A s \in DocsOf(e) : subscriptions[s].isActive = active

\* C30: every endpoint has at most one subscription; after a subscribe the
\* endpoint's subscription is active and holds the request's keys; after an
\* unsubscribe a stored endpoint is stored still, inactive; a send calls
\* sendNotification for the active subscriptions and no other, leaves those
\* whose push service answered 410 or 404 stored and inactive and the others
\* as they were, and reports successful + failed = total.
C30_PushSubscriptions ==
    [][/\ \A e \in Endpoints : Cardinality(DocsOf(e))' <= 1
       /\ Len(subscriptions') >= Len(subscriptions)
       /\ pc' = "subscribe" =>
             \A e \in Endpoints, b \in SubscribeBodies :
                 Subscribe(e, b.keys, b.email) =>
                     /\ StoredAs(e, TRUE)'
                     /\ \A s \in DocsOf(e)' : subscriptions'[s].keys = b.keys
                     /\ Len(subscriptions') =
                           Len(subscriptions) + (IF DocsOf(e) = {} THEN 1 ELSE 0)
       /\ pc' = "unsubscribe" =>
             \A e \in Endpoints :
                 (Unsubscribe(e) /\ DocsOf(e) # {}) => StoredAs(e, FALSE)'
       /\ pc' = "send" =>
             \A o \in [{e \in Endpoints : StoredAs(e, TRUE)} -> PushOutcomes] :
                 Send(o) =>
                     /\ report'.sent = {e \in Endpoints : StoredAs(e, TRUE)}
                     /\ report'.successful + report'.failed = report'.total
                     /\ report'.total = Cardinality(report'.sent)
                     /\ report'.successful
                           = Cardinality({e \in report'.sent : o[e] = "sent"})
                     /\ \A e \in report'.sent :
                           StoredAs(e, o[e] \notin {"410", "404"})'
                     /\ \A e \in Endpoints \ report'.sent :
                           DocsOf(e) # {} => StoredAs(e, FALSE)']_vars

\* Both endpoints subscribed, a send reached both, one push service answered
\* with a failure that deactivated its subscription.
C30_Witness ==
    /\ pc = "send"
    /\ Len(subscriptions) >= 2
    /\ report.total = 2 /\ report.successful = 1 /\ report.failed = 1
    /\ \E e \in Endpoints : StoredAs(e, FALSE)
    /\ \E e \in Endpoints : StoredAs(e, TRUE)

====
